---- MODULE Spec2Model ----
(***************************************************************************)
(* The capture enrichment pipeline of tab-vault: processCapture and the    *)
(* helpers it calls (scraper, source detector, image storage, AI service,  *)
(* embeddings), the captures table it reads and writes, and the tag        *)
(* editing handlers that write the same table.                             *)
(*                                                                         *)
(* A nullable column or value is a sequence of length 0 (null/undefined)   *)
(* or 1 (the value).  An update object is a function from column names to  *)
(* values; applying it replaces exactly the columns in its domain.        *)
(*                                                                         *)
(* The store client is used the way the code uses it: every request        *)
(* resolves, either applied or with an error and no effect; the awaited    *)
(* builder of the corrective update is taken to be a promise whose         *)
(* rejection handler swallows a failure.                                   *)
(***************************************************************************)
EXTENDS Integers, Sequences, FiniteSets, TLC

VARIABLES store, run, clock, env, tasks, batch, settings

vars == <<store, run, clock, env, tasks, batch, settings>>

\* ------------------------------------------------------------------ bounds

\* processCapture calls started in one behaviour (first runs and reprocessing).
MaxRuns == 2
\* Calls and tag edits in one behaviour with tag edits.
MaxClock == 3
\* How far below 0 and above 10 the raw integers of a scoring response go.
RawSpan == 2
\* How far around 80 characters the lengths of generated titles go.
TitleSpan == 2
\* The largest limit a backfill is called with.
MaxLimit == 2

\* Captures posted in one behaviour.
MaxPosts == 2

\* The failed runs of a sweep after which the store answers every request.
MaxFaults == 1

\* ------------------------------------------------------------ basic values

Null == <<>>
Some(v) == <<v>>
IsNull(x) == x = <<>>
Truthy(x) == x # <<>> /\ x # <<"">>

\* The workers that can execute processCapture (async invocations).
Workers == {"w1", "w2"}

\* The captures of the store, and an id that names no row.
CaptureIds == {"c1", "c2"}
GhostId == "ghost"

\* A URL: its text, its scheme prefix, its host, the label extractCleanDomain
\* cuts from the host and the first segment of its path.
UrlOf(id) ==
  IF id = "c1"
  THEN [text |-> "https://example.com/x", scheme |-> "https://",
        host |-> "example.com", label |-> "example", handle |-> "x"]
  ELSE [text |-> "chrome://extensions", scheme |-> "chrome://",
        host |-> "extensions", label |-> "extensions", handle |-> ""]

TitleOf(id) == IF id = "c1" THEN "Example page" ELSE "Extensions"

\* Every id a behaviour may insert, in the order of insertion; created_at is
\* the position in that order.
IdOrder == <<"c1", "c2", "c3", "c4", "c5", "c6", "c7", "c8", "c9", "c10", "c11">>

CreatedAt(id) == CHOOSE i \in 1..Len(IdOrder) : IdOrder[i] = id

\* The row POST /capture inserts: identity columns and status pending, every
\* other column at its schema default.
NewCapture(id) ==
  [ url |-> UrlOf(id), title |-> TitleOf(id), created_at |-> CreatedAt(id),
    selected_text |-> IF id = "c1" THEN Some("selected text") ELSE Null,
    favicon_url |-> Null,
    status |-> "pending", error_message |-> Null, processed_at |-> Null,
    content |-> Null, summary |-> Null, category |-> Null, tags |-> Null,
    quality_score |-> Null, actionability_score |-> Null,
    display_title |-> Null, key_takeaways |-> Null, action_items |-> Null,
    source_platform |-> Null, author_name |-> Null, image_url |-> Null,
    embedding |-> Null, notion_synced |-> FALSE, notion_page_id |-> Null,
    notion_synced_at |-> Null ]

EnrichmentFields ==
  { "content", "summary", "category", "tags", "quality_score",
    "actionability_score", "display_title", "key_takeaways", "action_items",
    "source_platform", "author_name", "image_url", "embedding" }

Enrichment(rec) == [f \in EnrichmentFields |-> rec[f]]

\* supabase .update(updates).eq('id', id): the columns of the update replace
\* those of the row, the others stay.
ApplyUpdate(rec, updates) ==
  [f \in DOMAIN rec |-> IF f \in DOMAIN updates THEN updates[f] ELSE rec[f]]

\* Variant: an update whose id matches no row lands on every row.
UpdateRowAnyRow(st, id, updates) ==
  [k \in DOMAIN st |-> IF id \in DOMAIN st /\ k # id THEN st[k] ELSE ApplyUpdate(st[k], updates)]

UpdateRow(st, id, updates) ==
  IF id \in DOMAIN st
  THEN [st EXCEPT ![id] = ApplyUpdate(st[id], updates)]
  ELSE st

\* ------------------------------------------------------------ scraper

\* Markup as the extractors read it: whether any was fetched, the author its
\* meta tags name and its og:image.
NoHtml == [present |-> FALSE, author |-> Null, ogImage |-> Null]
PlainHtml == [present |-> TRUE, author |-> Null, ogImage |-> Null]
MetaHtml ==
  [present |-> TRUE, author |-> Some("Jane Doe"), ogImage |-> Some("https://example.com/og.png")]

UnscrapeablePrefixes ==
  {"chrome://", "chrome-extension://", "about:", "file://", "javascript:", "data:"}

isScrapeable(url) == url.text # "" /\ url.scheme \notin UnscrapeablePrefixes

\* scrapeUrl never throws: it resolves with success and content and markup,
\* or with failure and whatever markup the simple fetch got.
ScrapeOutcomes ==
  { [success |-> TRUE, content |-> "page text", html |-> MetaHtml],
    [success |-> TRUE, content |-> "page text", html |-> PlainHtml],
    [success |-> FALSE, content |-> "", html |-> MetaHtml],
    [success |-> FALSE, content |-> "", html |-> NoHtml] }

NoScrape == [success |-> FALSE, content |-> "", html |-> NoHtml]

extractAuthorFromUrl(url) ==
  CASE url.host \in {"twitter.com", "www.twitter.com", "x.com", "www.x.com",
                     "mobile.twitter.com", "mobile.x.com"}
         /\ url.handle \notin {"", "home", "explore", "search", "notifications",
                               "messages", "i", "settings"}
         -> Some(<<"@", url.handle>>)
    [] url.host \in {"github.com", "www.github.com"}
         /\ url.handle \notin {"", "explore", "trending", "collections", "events",
                               "sponsors", "settings", "notifications", "pulls",
                               "issues", "marketplace", "features", "pricing",
                               "enterprise", "team", "about", "search"}
         -> Some(<<"", url.handle>>)
    [] OTHER -> Null

extractAuthor(html, url) ==
  IF ~html.present /\ url.text = "" THEN Null
  ELSE IF extractAuthorFromUrl(url) # Null THEN extractAuthorFromUrl(url)
  ELSE IF ~html.present THEN Null
  ELSE IF html.author # Null THEN Some(<<"", html.author[1]>>)
  ELSE Null

detectSourcePlatform(url) ==
  CASE url.text = "" -> "unknown"
    [] url.host \in {"twitter.com", "www.twitter.com", "x.com", "www.x.com",
                     "mobile.twitter.com", "mobile.x.com"} -> "twitter"
    [] url.host \in {"github.com", "www.github.com", "gist.github.com"} -> "github"
    [] OTHER -> url.label

extractOgImage(html) == IF ~html.present THEN Null ELSE html.ogImage

\* extractImageUrl for a URL of no platform with an image API: og:image of
\* the markup, if any.
extractImageUrl(url, html) ==
  IF url.text = "" THEN Null
  ELSE IF html.present THEN extractOgImage(html)
  ELSE Null

\* The public URL storeImage returns: a file named after the capture id.
StoredImageUrl(id) == <<"capture-images/", id>>

\* ------------------------------------------------------------ AI service

ScoreMin == 1
ScoreMax == 10
ScoreDefault == 5
TitleMax == 80
TitleKeep == 77

\* A JSON value of the scoring response: an integer, a number with a
\* fraction (n is its integer part), a string that starts with the digits of
\* n, a string that starts with no digit, or an absent key.
RawInt(n) == [kind |-> "int", n |-> n]
RawFloat(n) == [kind |-> "float", n |-> n]
RawNumText(n) == [kind |-> "numtext", n |-> n]
RawText == [kind |-> "text", n |-> 0]
RawMissing == [kind |-> "missing", n |-> 0]

\* parseInt: the leading integer of the value's string form, NaN if none.
parseInt(v) ==
  IF v.kind \in {"int", "float", "numtext"} THEN [nan |-> FALSE, n |-> v.n]
  ELSE [nan |-> TRUE, n |-> 0]

\* x || d on a number: d when x is NaN or 0.
OrDefault(x, d) == IF x.nan \/ x.n = 0 THEN d ELSE x.n

Max(a, b) == IF a >= b THEN a ELSE b
Min(a, b) == IF a <= b THEN a ELSE b

\* Variant: the upper clamp alone.
ClampScoreNoFloor(v) == Min(ScoreMax, OrDefault(parseInt(v), ScoreDefault))

\* Math.min(10, Math.max(1, parseInt(x) || 5))
ClampScore(v) == Min(ScoreMax, Max(ScoreMin, OrDefault(parseInt(v), ScoreDefault)))

\* score(): the parsed response clamped, 5/5 when no JSON object is found or
\* JSON.parse throws.
score(resp) ==
  IF resp.parsed
  THEN [quality |-> ClampScore(resp.quality), actionability |-> ClampScore(resp.actionability)]
  ELSE [quality |-> ScoreDefault, actionability |-> ScoreDefault]

\* Variant: another fallback category.
categorizeUncategorized(resp) ==
  IF resp.parsed
  THEN [category |-> resp.category, tags |-> resp.tags]
  ELSE [category |-> "uncategorized", tags |-> <<>>]

\* categorize(): JSON.parse of the matched object as it is, the fallback when
\* nothing parses.
categorize(resp) ==
  IF resp.parsed
  THEN [category |-> resp.category, tags |-> resp.tags]
  ELSE [category |-> "reference", tags |-> <<>>]

\* Variant: the cut keeps 80 characters before the ellipsis.
generateDisplayTitleLong(resp) ==
  IF resp.len - resp.quotes > TitleMax
  THEN [text |-> resp.text, len |-> TitleMax + 3, ellipsis |-> TRUE]
  ELSE [text |-> resp.text, len |-> resp.len - resp.quotes, ellipsis |-> FALSE]

\* generateDisplayTitle(): the trimmed response (len characters) without the
\* quote characters at its ends, cut to 77 characters plus '...' when longer
\* than 80.
generateDisplayTitle(resp) ==
  LET cleanLen == resp.len - resp.quotes IN
  IF cleanLen > TitleMax
  THEN [text |-> resp.text, len |-> TitleKeep + 3, ellipsis |-> TRUE]
  ELSE [text |-> resp.text, len |-> cleanLen, ellipsis |-> FALSE]

\* extractInsights(): the takeaways and action items of the response.
extractInsights(resp) == [takeaways |-> resp.takeaways, actions |-> resp.actions]

\* processContent(): summary, category and tags, title, then the scores.
processContent(resp) ==
  [ summary |-> resp.summary,
    category |-> categorize(resp.cat).category,
    tags |-> categorize(resp.cat).tags,
    quality |-> score(resp.score).quality,
    actionability |-> score(resp.score).actionability,
    displayTitle |-> generateDisplayTitle(resp.title) ]

\* What the text-generation backend answered to the calls of one run.
GoodResponse ==
  [ summary |-> "summary A",
    cat |-> [parsed |-> TRUE, category |-> "learning", tags |-> <<"js", "tutorial">>],
    score |-> [parsed |-> TRUE, quality |-> RawInt(7), actionability |-> RawInt(5)],
    title |-> [text |-> "title A", len |-> 12, quotes |-> 0],
    takeaways |-> <<"takeaway A">>, actions |-> <<"action A">> ]

MessyResponse ==
  [ summary |-> "summary B",
    cat |-> [parsed |-> TRUE, category |-> "work", tags |-> <<"AI", "ai", "ai">>],
    score |-> [parsed |-> TRUE, quality |-> RawInt(0), actionability |-> RawInt(15)],
    title |-> [text |-> "title B", len |-> 95, quotes |-> 0],
    takeaways |-> <<"takeaway B">>, actions |-> <<>> ]

MalformedResponse ==
  [ summary |-> "summary C",
    cat |-> [parsed |-> FALSE, category |-> "", tags |-> <<>>],
    score |-> [parsed |-> FALSE, quality |-> RawMissing, actionability |-> RawMissing],
    title |-> [text |-> "title C", len |-> 80, quotes |-> 0],
    takeaways |-> <<>>, actions |-> <<>> ]

AiResponses == {GoodResponse, MessyResponse, MalformedResponse}

\* The outcome of step 4: one of the calls rejected, or every call answered;
\* "off" when the step is skipped.
AiOutcomes ==
  { [kind |-> "throw", resp |-> GoodResponse] }
  \cup { [kind |-> "ok", resp |-> r] : r \in AiResponses }

NoAi == [kind |-> "off", resp |-> GoodResponse]

\* The generation calls of step 4 and the columns each one's output goes to.
AiCalls == {"summarize", "categorize", "generateDisplayTitle", "score", "extractInsights"}

FieldsOf(call) ==
  CASE call = "summarize" -> {"summary"}
    [] call = "categorize" -> {"category", "tags"}
    [] call = "generateDisplayTitle" -> {"display_title"}
    [] call = "score" -> {"quality_score", "actionability_score"}
    [] call = "extractInsights" -> {"key_takeaways", "action_items"}

\* The outcome in which exactly one call rejected: Promise.all rejects with
\* it, whatever the other calls answered.
CallFailures == { [kind |-> "throw", resp |-> GoodResponse, failed |-> c] : c \in AiCalls }

\* ------------------------------------------------------------ embeddings

\* The text generateCaptureEmbedding composes: each part present only when
\* its field is truthy (tags: a non-empty array).
EmbeddingText(capture) ==
  [ title |-> IF capture.title # "" THEN Some(capture.title) ELSE Null,
    summary |-> IF Truthy(capture.summary) THEN capture.summary ELSE Null,
    category |-> IF Truthy(capture.category) THEN capture.category ELSE Null,
    tags |-> IF capture.tags # Null /\ Len(capture.tags[1]) > 0 THEN capture.tags ELSE Null,
    content |-> IF Truthy(capture.content) THEN capture.content ELSE Null ]

\* The vector the embedding backend returns for a text: a function of the
\* text alone.
generateEmbedding(text) == [input |-> text]

generateCaptureEmbedding(capture) == generateEmbedding(EmbeddingText(capture))

formatForPgVector(embedding) == <<"[", embedding, "]">>

\* ------------------------------------------------------------ processor

\* env: which services the process environment configures (SUPABASE_URL and
\* key, OPENROUTER_API_KEY, OPENAI_API_KEY), fixed when the process starts.

FetchFailed == "Failed to fetch capture"
UpdateFailed == "Failed to update capture"
NotConfigured == "Supabase not configured"

\* The outcomes of the external calls of one run, in the order they are made.
NoOutcomes ==
  [ fetch |-> "-", mark |-> "-", scrape |-> NoScrape,
    image |-> "-", ai |-> NoAi, embed |-> "-", final |-> "-", corrective |-> "-" ]

\* One invocation of processCapture: its position, its argument, its locals,
\* the requests it issued to the captures table and the result it returned.
\* pre is the row as it was when the call started; script holds the outcomes
\* a retry replays.
IdleRun ==
  [ pc |-> "idle", id |-> GhostId, replay |-> FALSE, script |-> NoOutcomes,
    out |-> NoOutcomes, pre |-> Null, capture |-> Null,
    content |-> "", rawHtml |-> NoHtml,
    sourcePlatform |-> "", authorName |-> Null, sourceImageUrl |-> Null,
    aiInput |-> Null, updates |-> <<>>, error |-> "",
    nReads |-> 0, nUpdates |-> 0,
    result |-> [success |-> FALSE, error |-> ""] ]

Finished(w) == run[w].pc \in {"idle", "done"}

RowOf(st, id) == IF id \in DOMAIN st THEN Some(st[id]) ELSE Null

\* processCapture is called (lines 698-701).  Without a store client it
\* returns at once.
BeginProcessCapture(w, id, replay) ==
  /\ Finished(w)
  /\ clock' = clock + 1
  /\ run' = [run EXCEPT ![w] =
       [ IdleRun EXCEPT
           !.id = id, !.replay = replay,
           !.script = IF replay THEN run[w].out ELSE NoOutcomes,
           !.pre = RowOf(store, id),
           !.pc = IF env.supabase THEN "fetch" ELSE "done",
           !.result = [success |-> FALSE, error |-> IF env.supabase THEN "" ELSE NotConfigured] ]]
  /\ UNCHANGED <<store, env>>

\* MaxRuns calls are explored, and after any of them the same call once more
\* with every external call answering as before.
StartProcessCapture(w, id, replay) ==
  /\ ~run[w].replay
  /\ replay \/ clock < MaxRuns
  /\ BeginProcessCapture(w, id, replay)

\* 1. Fetch the capture (lines 704-713): a missing row or a store error
\* throws into the catch block.
FetchCapture(w, o) ==
  /\ run[w].pc = "fetch"
  /\ (run[w].id \notin DOMAIN store) => o = "err"
  /\ run' = [run EXCEPT ![w] =
       IF o = "ok"
       THEN [@ EXCEPT !.capture = Some(store[run[w].id]), !.nReads = @ + 1,
                      !.out.fetch = o, !.pc = "mark"]
       ELSE [@ EXCEPT !.error = FetchFailed, !.nReads = @ + 1,
                      !.out.fetch = o, !.pc = "catch"]]
  /\ UNCHANGED <<store, clock, env>>

\* Variant: the transition write already carries the source platform.
MarkProcessingEarly(w, o) ==
  /\ run[w].pc = "mark"
  /\ store' = IF o = "ok"
              THEN UpdateRow(store, run[w].id,
                     [status |-> "processing",
                      source_platform |-> Some(detectSourcePlatform(run[w].capture[1].url))])
              ELSE store
  /\ run' = [run EXCEPT ![w] = [@ EXCEPT !.nUpdates = @ + 1, !.out.mark = o, !.pc = "scrape"]]
  /\ UNCHANGED <<clock, env>>

\* 2. Update status to processing (lines 717-721); the response is not read.
MarkProcessing(w, o) ==
  /\ run[w].pc = "mark"
  /\ store' = IF o = "ok" THEN UpdateRow(store, run[w].id, [status |-> "processing"]) ELSE store
  /\ run' = [run EXCEPT ![w] = [@ EXCEPT !.nUpdates = @ + 1, !.out.mark = o, !.pc = "scrape"]]
  /\ UNCHANGED <<clock, env>>

\* 3. Scrape content if the URL is scrapeable (lines 723-738).
ScrapeContent(w, o) ==
  /\ run[w].pc = "scrape"
  /\ ~isScrapeable(run[w].capture[1].url) => o = NoScrape
  /\ run' = [run EXCEPT ![w] =
       [@ EXCEPT !.content = IF o.success THEN o.content ELSE "",
                 !.rawHtml = o.html, !.out.scrape = o, !.pc = "meta"]]
  /\ UNCHANGED <<store, clock, env>>

\* Source platform, author and image URL from the markup (lines 740-752).
ExtractMetadata(w) ==
  /\ run[w].pc = "meta"
  /\ run' = [run EXCEPT ![w] =
       [@ EXCEPT !.sourcePlatform = detectSourcePlatform(run[w].capture[1].url),
                 !.authorName = extractAuthor(run[w].rawHtml, run[w].capture[1].url),
                 !.sourceImageUrl = extractImageUrl(run[w].capture[1].url, run[w].rawHtml),
                 !.pc = "image"]]
  /\ UNCHANGED <<store, clock, env>>

\* Variants: an empty content is written as the empty string; no
\* processed_at.
PrepareUpdatesEmptyContent(content, now, sourcePlatform, authorName, imageUrl) ==
  [ content |-> Some(content),
    processed_at |-> Some(now),
    source_platform |-> Some(sourcePlatform),
    author_name |-> authorName,
    image_url |-> imageUrl ]

PrepareUpdatesNoStamp(content, now, sourcePlatform, authorName, imageUrl) ==
  [ content |-> IF content # "" THEN Some(content) ELSE Null,
    source_platform |-> Some(sourcePlatform),
    author_name |-> authorName,
    image_url |-> imageUrl ]

\* Variant: content, author and image are left out when the stage produced
\* nothing.
PrepareUpdatesOmitting(content, now, sourcePlatform, authorName, imageUrl) ==
  [f \in {"processed_at", "source_platform"}
        \cup (IF content # "" THEN {"content"} ELSE {})
        \cup (IF authorName # Null THEN {"author_name"} ELSE {})
        \cup (IF imageUrl # Null THEN {"image_url"} ELSE {}) |->
     CASE f = "processed_at" -> Some(now)
       [] f = "source_platform" -> Some(sourcePlatform)
       [] f = "content" -> Some(content)
       [] f = "author_name" -> authorName
       [] f = "image_url" -> imageUrl]

\* The update object as prepared at lines 764-771.
PrepareUpdates(content, now, sourcePlatform, authorName, imageUrl) ==
  [ content |-> IF content # "" THEN Some(content) ELSE Null,
    processed_at |-> Some(now),
    source_platform |-> Some(sourcePlatform),
    author_name |-> authorName,
    image_url |-> imageUrl ]

\* Store the image if one was found (lines 753-762), then prepare the update
\* object.
StoreImage(w, o) ==
  /\ run[w].pc = "image"
  /\ o = "-" <=> run[w].sourceImageUrl = Null
  /\ run' = [run EXCEPT ![w] =
       [@ EXCEPT !.updates = PrepareUpdates(run[w].content, clock, run[w].sourcePlatform,
                                            run[w].authorName,
                                            IF o = "ok" THEN Some(StoredImageUrl(run[w].id)) ELSE Null),
                 !.out.image = o, !.pc = "ai"]]
  /\ UNCHANGED <<store, clock, env>>

\* The fields step 4 adds to the update object (lines 791-798).
AiUpdates(aiResult, insights) ==
  [ summary |-> Some(aiResult.summary),
    category |-> Some(aiResult.category),
    tags |-> Some(aiResult.tags),
    quality_score |-> Some(aiResult.quality),
    actionability_score |-> Some(aiResult.actionability),
    display_title |-> Some(aiResult.displayTitle),
    key_takeaways |-> Some(insights.takeaways),
    action_items |-> Some(insights.actions) ]

\* 4. AI processing (lines 773-807): skipped when not configured, its fields
\* added only when processContent and extractInsights both resolve.
AiProcessing(w, o) ==
  /\ run[w].pc = "ai"
  /\ o.kind = "off" <=> ~env.ai
  /\ LET ran == env.ai /\ (run[w].content # "" \/ run[w].capture[1].title # "")
         text == IF run[w].content # "" THEN run[w].content ELSE run[w].capture[1].title
     IN run' = [run EXCEPT ![w] =
          [@ EXCEPT !.updates = IF ran /\ o.kind = "ok"
                                THEN AiUpdates(processContent(o.resp), extractInsights(o.resp)) @@ @
                                ELSE @,
                    !.aiInput = IF ran THEN Some(text) ELSE Null,
                    !.out.ai = o, !.pc = "embed"]]
  /\ UNCHANGED <<store, clock, env>>

\* Variant: the embedding is computed without this run's AI outputs.
CaptureForEmbeddingWithoutAi(capture, updates) ==
  ApplyUpdate(capture,
    [f \in DOMAIN updates \ UNION {FieldsOf(c) : c \in AiCalls} |-> updates[f]])

\* Variant: the embedding is computed from the row as fetched.
CaptureForEmbeddingStale(capture, updates) == capture

\* The capture handed to generateCaptureEmbedding (lines 813-816).
CaptureForEmbedding(capture, updates) == ApplyUpdate(capture, updates)

\* 5. Generate embeddings (lines 809-826).
GenerateEmbeddings(w, o) ==
  /\ run[w].pc = "embed"
  /\ o = "off" <=> ~env.embeddings
  /\ run' = [run EXCEPT ![w] =
       [@ EXCEPT !.updates =
                   IF o = "ok"
                   THEN [embedding |-> Some(formatForPgVector(generateCaptureEmbedding(
                           CaptureForEmbedding(run[w].capture[1], run[w].updates))))] @@ @
                   ELSE @,
                 !.out.embed = o, !.pc = "final"]]
  /\ UNCHANGED <<store, clock, env>>

\* Variant: the final update leaves the status at processing.
FinalUpdatesStillProcessing(updates) == [status |-> "processing"] @@ updates

\* Variant: the final update resets the sync flag.
FinalUpdatesResettingSync(updates) ==
  [status |-> "completed", notion_synced |-> FALSE] @@ updates

\* Variant: the final update carries no status.
FinalUpdatesNoStatus(updates) == updates

\* Variant: the final write also clears the error message.
FinalUpdatesClearingError(updates) ==
  [status |-> "completed", error_message |-> Null] @@ updates

\* The update object of step 6 (line 829).
FinalUpdates(updates) == [status |-> "completed"] @@ updates

\* 6. Update the capture with the results (lines 828-841).
FinalUpdate(w, o) ==
  /\ run[w].pc = "final"
  /\ store' = IF o = "ok" THEN UpdateRow(store, run[w].id, FinalUpdates(run[w].updates)) ELSE store
  /\ run' = [run EXCEPT ![w] =
       IF o = "ok"
       THEN [@ EXCEPT !.updates = FinalUpdates(@), !.nUpdates = @ + 1, !.out.final = o,
                      !.result = [success |-> TRUE, error |-> ""], !.pc = "done"]
       ELSE [@ EXCEPT !.updates = FinalUpdates(@), !.nUpdates = @ + 1, !.out.final = o,
                      !.error = UpdateFailed, !.pc = "catch"]]
  /\ UNCHANGED <<clock, env>>

\* Variants: the corrective update without the status, and with a fixed
\* message.
ErrorUpdatesMessageOnly(message) == [error_message |-> Some(message)]
ErrorUpdatesGeneric(message) == [status |-> "error", error_message |-> Some("Processing failed")]

\* Variant: the catch block also persists what the run had gathered.
CatchErrorKeepingPartial(w, o) ==
  /\ run[w].pc = "catch"
  /\ store' = IF o = "ok"
              THEN UpdateRow(store, run[w].id,
                             [status |-> "error", error_message |-> Some(run[w].error)] @@ run[w].updates)
              ELSE store
  /\ run' = [run EXCEPT ![w] =
       [@ EXCEPT !.nUpdates = @ + 1, !.out.corrective = o,
                 !.result = [success |-> FALSE, error |-> run[w].error], !.pc = "done"]]
  /\ UNCHANGED <<clock, env>>

\* Variant: the catch block repeats its update once.
CatchErrorRepeating(w, o) ==
  /\ run[w].pc = "catch"
  /\ store' = IF o = "ok" THEN UpdateRow(store, run[w].id, [status |-> "error", error_message |-> Some(run[w].error)]) ELSE store
  /\ run' = [run EXCEPT ![w] =
       [@ EXCEPT !.nUpdates = @ + 2, !.out.corrective = o,
                 !.result = [success |-> FALSE, error |-> run[w].error], !.pc = "done"]]
  /\ UNCHANGED <<clock, env>>

\* Variant: a failed corrective update leaves the function as a rejection.
CatchErrorRejecting(w, o) ==
  /\ run[w].pc = "catch"
  /\ store' = IF o = "ok" THEN UpdateRow(store, run[w].id, [status |-> "error", error_message |-> Some(run[w].error)]) ELSE store
  /\ run' = [run EXCEPT ![w] =
       IF o = "ok"
       THEN [@ EXCEPT !.nUpdates = @ + 1, !.out.corrective = o,
                      !.result = [success |-> FALSE, error |-> run[w].error], !.pc = "done"]
       ELSE [@ EXCEPT !.nUpdates = @ + 1, !.out.corrective = o, !.pc = "rejected"]]
  /\ UNCHANGED <<clock, env>>

\* The update of the catch block (lines 850-853).
ErrorUpdates(message) == [status |-> "error", error_message |-> Some(message)]

\* The catch block (lines 843-859): the corrective update, its failure
\* swallowed, and the failure result.
CatchError(w, o) ==
  /\ run[w].pc = "catch"
  /\ store' = IF o = "ok" THEN UpdateRow(store, run[w].id, ErrorUpdates(run[w].error)) ELSE store
  /\ run' = [run EXCEPT ![w] =
       [@ EXCEPT !.nUpdates = @ + 1, !.out.corrective = o,
                 !.result = [success |-> FALSE, error |-> run[w].error], !.pc = "done"]]
  /\ UNCHANGED <<clock, env>>

\* ------------------------------------------------------------ tag edits

\* Tag names requests and responses carry; "JS " ends with a space.
TagNames == {"ai", "AI", "js", "JS ", "tutorial"}

\* String.prototype.toLowerCase and trim on those names.
toLowerCase(t) == CASE t = "AI" -> "ai" [] t = "JS " -> "js " [] OTHER -> t
trim(t) == CASE t = "JS " -> "JS" [] t = "js " -> "js" [] OTHER -> t

Includes(seq, x) == \E i \in 1..Len(seq) : seq[i] = x
Filter(seq, x) == SelectSeq(seq, LAMBDA t : t # x)

\* [...new Set(tags)]: the first occurrence of each element, in order.
RECURSIVE Unique(_)
Unique(seq) ==
  IF seq = <<>> THEN <<>>
  ELSE LET front == Unique(SubSeq(seq, 1, Len(seq) - 1))
           last == seq[Len(seq)]
       IN IF Includes(front, last) THEN front ELSE Append(front, last)

\* .contains('tags', [tag]) on the captures table.
CapturesWithTag(st, tag) ==
  {id \in DOMAIN st : st[id].tags # Null /\ Includes(st[id].tags[1], tag)}

\* The per-capture updates of a tag operation: newTags[id] is written to
\* every selected capture whose update request succeeds.
WriteTags(st, selected, applied, newTags) ==
  [id \in DOMAIN st |->
     IF id \in selected \cap applied
     THEN ApplyUpdate(st[id], [tags |-> Some(newTags[id])])
     ELSE st[id]]

TagsOf(st, id) == st[id].tags[1]

\* The request body of PATCH /captures/:id: category and tags, each optional.
ArrayOf(items) == [isArray |-> TRUE, items |-> items]
NotAnArray == [isArray |-> FALSE, items |-> <<>>]

PatchUpdates(body) ==
  [f \in DOMAIN body |->
     IF f = "tags"
     THEN Some(IF body.tags.isArray THEN body.tags.items ELSE <<>>)
     ELSE Some(body[f])]

\* PATCH /captures/:id: the given category and tags are written as given.
PatchCapture(id, body, o) ==
  /\ clock < MaxClock
  /\ clock' = clock + 1
  /\ store' = IF env.supabase /\ DOMAIN body # {} /\ o = "ok"
              THEN UpdateRow(store, id, PatchUpdates(body))
              ELSE store
  /\ UNCHANGED <<run, env>>

\* deleteTag: the tag is filtered out of every capture that has it.
deleteTag(tagName, fetched, applied) ==
  /\ clock < MaxClock
  /\ clock' = clock + 1
  /\ store' = IF env.supabase /\ tagName # "" /\ fetched
              THEN WriteTags(store, CapturesWithTag(store, tagName), applied,
                             [id \in CapturesWithTag(store, tagName) |->
                                Filter(TagsOf(store, id), tagName)])
              ELSE store
  /\ UNCHANGED <<run, env>>

\* mergeTags: the source tag is removed and the target pushed if absent.
mergeTags(sourceTag, targetTag, fetched, applied) ==
  /\ clock < MaxClock
  /\ clock' = clock + 1
  /\ store' = IF /\ env.supabase /\ sourceTag # "" /\ targetTag # ""
                 /\ sourceTag # targetTag /\ fetched
              THEN WriteTags(store, CapturesWithTag(store, sourceTag), applied,
                             [id \in CapturesWithTag(store, sourceTag) |->
                                LET newTags == Filter(TagsOf(store, id), sourceTag)
                                IN IF Includes(newTags, targetTag) THEN newTags
                                   ELSE Append(newTags, targetTag)])
              ELSE store
  /\ UNCHANGED <<run, env>>

\* renameTag: the old tag is replaced by the lowercased, trimmed new name and
\* duplicates are removed.
renameTag(oldName, newName, fetched, applied) ==
  LET normalizedNew == trim(toLowerCase(newName)) IN
  /\ clock < MaxClock
  /\ clock' = clock + 1
  /\ store' = IF /\ env.supabase /\ oldName # "" /\ newName # ""
                 /\ oldName # normalizedNew /\ fetched
              THEN WriteTags(store, CapturesWithTag(store, oldName), applied,
                             [id \in CapturesWithTag(store, oldName) |->
                                LET tags == TagsOf(store, id)
                                IN Unique([i \in 1..Len(tags) |->
                                             IF tags[i] = oldName THEN normalizedNew ELSE tags[i]])])
              ELSE store
  /\ UNCHANGED <<run, env>>

\* ------------------------------------------------------------ backfills

\* Nothing scheduled with setImmediate: queue holds the callbacks not yet
\* started, returned the ids processInBackground has returned for, active the
\* invocations running a callback, logged the ids whose callback caught a
\* rejection, usage the usage-ledger writes started and not awaited and the
\* number of rows they have inserted.
NoTasks ==
  [ queue |-> <<>>, returned |-> {}, active |-> {}, logged |-> {},
    usage |-> [pending |-> {}, rows |-> 0] ]

\* No sweep or backfill called.
NoBatch ==
  [ op |-> "none", pc |-> "idle", arg |-> 0, selected |-> <<>>, queue |-> <<>>,
    worker |-> "", processed |-> 0, failed |-> 0, remaining |-> 0, error |-> "",
    before |-> <<>> ]

Range(seq) == {seq[i] : i \in 1..Len(seq)}

\* .limit(n) on an ordered selection.
Take(seq, n) == SubSeq(seq, 1, Min(n, Len(seq)))

\* .order('created_at', { ascending }) on a set of rows.
RECURSIVE OrderByCreatedAt(_, _, _)
OrderByCreatedAt(st, ids, ascending) ==
  IF ids = {} THEN <<>>
  ELSE LET first == CHOOSE id \in ids : \A other \in ids :
                      IF ascending THEN st[id].created_at <= st[other].created_at
                      ELSE st[id].created_at >= st[other].created_at
       IN <<first>> \o OrderByCreatedAt(st, ids \ {first}, ascending)

\* .is(field, null).eq('status', 'completed')
CompletedMissing(st, field) ==
  {id \in DOMAIN st : st[id].status = "completed" /\ st[id][field] = Null}

\* The rows a backfill selects: newest first, at most limit.
BackfillSelection(st, field, limit) ==
  Take(OrderByCreatedAt(st, CompletedMissing(st, field), FALSE), limit)

SupabaseMissing == "Supabase not configured"
EmbeddingsMissing == "Embeddings not configured"
AiMissing == "AI not configured"
SelectFailed == "select failed"

\* What a backfill returns and leaves: written maps each capture whose
\* generation and update both succeeded to the value written to field;
\* failure is the message of the early return, "" if it got to the query
\* result.
Backfill(op, field, limit, failure, written, counted) ==
  LET selected == IF failure = "" THEN BackfillSelection(store, field, limit) ELSE <<>>
      after == [id \in DOMAIN store |->
                  IF id \in DOMAIN written
                  THEN ApplyUpdate(store[id], [x \in {field} |-> Some(written[id])])
                  ELSE store[id]]
  IN /\ DOMAIN written \subseteq Range(selected)
     /\ store' = after
     /\ batch' = [NoBatch EXCEPT
          !.op = op, !.pc = "done", !.arg = limit, !.selected = selected,
          !.processed = Cardinality(DOMAIN written),
          !.failed = Len(selected) - Cardinality(DOMAIN written),
          !.remaining = IF selected # <<>> /\ counted = "ok"
                        THEN Cardinality(CompletedMissing(after, field)) ELSE 0,
          !.error = failure, !.before = <<store>>]

\* How one iteration of a backfill loop went: the generation call threw, the
\* update of the row failed, or the value was written.
BackfillSteps(values) ==
  { [kind |-> "throw", value |-> v] : v \in values }
  \cup { [kind |-> k, value |-> v] : k \in {"update failed", "ok"}, v \in values }

Written(answers) == {id \in DOMAIN answers : answers[id].kind = "ok"}

\* backfillEmbeddings(limit): embeddings for completed captures without one
\* (lines 921-987).
backfillEmbeddings(limit, fetched, answers, counted) ==
  /\ batch.op = "none"
  /\ Backfill("backfillEmbeddings", "embedding", limit,
              IF ~env.supabase THEN SupabaseMissing
              ELSE IF ~env.embeddings THEN EmbeddingsMissing
              ELSE IF fetched # "ok" THEN SelectFailed ELSE "",
              [id \in Written(answers) |->
                 formatForPgVector(generateCaptureEmbedding(store[id]))],
              counted)
  /\ UNCHANGED <<run, clock, env, tasks>>

\* backfillDisplayTitles(limit): display titles for completed captures
\* without one (lines 995-1064).
backfillDisplayTitles(limit, fetched, answers, counted) ==
  /\ batch.op = "none"
  /\ Backfill("backfillDisplayTitles", "display_title", limit,
              IF ~env.supabase THEN SupabaseMissing
              ELSE IF ~env.ai THEN AiMissing
              ELSE IF fetched # "ok" THEN SelectFailed ELSE "",
              [id \in Written(answers) |-> generateDisplayTitle(answers[id].value)],
              counted)
  /\ UNCHANGED <<run, clock, env, tasks>>

\* ------------------------------------------------------------ notion sync

\* POST /notion/sync/:id with Notion configured (routes/capture.js 736-799):
\* after a successful syncCapture the three sync columns are written.
NotionSync(id, synced) ==
  /\ env.supabase
  /\ id \in DOMAIN store
  /\ store' = IF synced
              THEN UpdateRow(store, id,
                     [notion_synced |-> TRUE, notion_page_id |-> Some("page"),
                      notion_synced_at |-> Some("synced at")])
              ELSE store
  /\ UNCHANGED <<run, clock, env, tasks, batch>>

\* ------------------------------------------------------------ usage ledger

\* The generation calls of an AI stage that got an answer, each of which
\* starts a ledger write (part_013 94-103): all of them, or those not
\* prevented by the one that failed (score is awaited after the other three
\* of processContent).
UsageCalls(o) ==
  IF o.kind = "ok" THEN AiCalls
  ELSE IF o \in CallFailures
  THEN AiCalls \ ({o.failed} \cup
                  IF o.failed \in {"summarize", "categorize", "generateDisplayTitle"}
                  THEN {"score"} ELSE {})
  ELSE {}

UsageStarted(id, calls) ==
  [tasks EXCEPT !.usage.pending = @ \cup {[id |-> id, op |-> c] : c \in calls}]

\* Step 4 with the ledger writes its calls start.
AiProcessingWithUsage(w, o) ==
  /\ AiProcessing(w, o)
  /\ tasks' = UsageStarted(run[w].id, IF run[w].content # "" \/ run[w].capture[1].title # ""
                                       THEN UsageCalls(o) ELSE {})
  /\ UNCHANGED batch

\* Step 5 with the ledger write of generateEmbedding (part_015 65-74).
GenerateEmbeddingsWithUsage(w, o) ==
  /\ GenerateEmbeddings(w, o)
  /\ tasks' = UsageStarted(run[w].id, IF o = "ok" THEN {"embed"} ELSE {})
  /\ UNCHANGED batch

\* How a ledger write ends (part_012 171-208).
UsageOutcomes == {"skipped", "recorded", "error", "thrown"}

\* Variant: the call awaits the ledger write and fails with it.
recordUsageAwaited(entry, o) ==
  /\ entry \in tasks.usage.pending
  /\ o = "skipped" <=> ~env.supabase
  /\ tasks' = [tasks EXCEPT !.usage.pending = @ \ {entry},
                            !.usage.rows = IF o = "recorded" THEN @ + 1 ELSE @]
  /\ run' = [w \in Workers |->
              IF o = "thrown" /\ run[w].id = entry.id
              THEN [run[w] EXCEPT !.updates = [f \in DOMAIN @ \ FieldsOf("summarize") |-> @[f]]]
              ELSE run[w]]
  /\ UNCHANGED <<store, clock, env, batch>>

\* recordUsage() settles: skipped without a store client, a row inserted, an
\* insert error or an exception, each turned into a resolved
\* {success, error}; nobody awaits it.
recordUsage(entry, o) ==
  /\ entry \in tasks.usage.pending
  /\ o = "skipped" <=> ~env.supabase
  /\ tasks' = [tasks EXCEPT !.usage.pending = @ \ {entry},
                            !.usage.rows = IF o = "recorded" THEN @ + 1 ELSE @]
  /\ UNCHANGED <<store, run, clock, env, batch>>

\* ------------------------------------------------------------ intake and sweep

\* .limit(10) of the sweep's selection.
SweepLimit == 10

\* Variant: the run is started inside the call.
processInBackgroundInline(captureId) ==
  /\ \E w \in Workers :
       /\ Finished(w) /\ w \notin tasks.active
       /\ run' = [run EXCEPT ![w] =
            [IdleRun EXCEPT !.id = captureId, !.pre = Some(NewCapture(captureId)),
                            !.pc = "fetch"]]
       /\ tasks' = [tasks EXCEPT !.active = @ \cup {w}]
  /\ clock' = clock + 1

\* processInBackground(captureId) (lines 866-875): the callback is handed to
\* setImmediate and the call returns.
processInBackground(captureId) ==
  /\ tasks' = [tasks EXCEPT !.queue = Append(@, captureId),
                            !.returned = @ \cup {captureId}]
  /\ UNCHANGED <<run, clock>>

\* POST /capture of a URL not captured in the last 24 hours, store
\* configured (routes/capture.js 16-97): the row is inserted and its
\* processing scheduled; a failed insert goes to the error middleware.  Rows
\* get the ids of IdOrder in turn.
PostCapture(id, o) ==
  /\ env.supabase
  /\ id \notin DOMAIN store
  /\ \A i \in 1..(CreatedAt(id) - 1) : IdOrder[i] \in DOMAIN store
  /\ IF o = "ok"
     THEN /\ store' = [k \in DOMAIN store \cup {id} |->
                         IF k = id THEN NewCapture(id) ELSE store[k]]
          /\ processInBackground(id)
     ELSE UNCHANGED <<store, run, clock, tasks>>
  /\ UNCHANGED <<env, batch>>

\* The event loop starts the oldest scheduled callback, which calls
\* processCapture (lines 868-870).
StartTask(w) ==
  /\ tasks.queue # <<>>
  /\ w \notin tasks.active
  /\ ~(batch.pc = "await" /\ batch.worker = w)
  /\ BeginProcessCapture(w, Head(tasks.queue), FALSE)
  /\ tasks' = [tasks EXCEPT !.queue = Tail(@), !.active = @ \cup {w}]
  /\ UNCHANGED batch

\* The callback ends: the awaited run resolved, or its rejection is caught
\* and logged (lines 869-873).
EndTask(w) ==
  /\ w \in tasks.active
  /\ run[w].pc \in {"done", "rejected"}
  /\ tasks' = [tasks EXCEPT !.active = @ \ {w},
                            !.logged = IF run[w].pc = "rejected" THEN @ \cup {run[w].id} ELSE @]
  /\ UNCHANGED <<store, run, clock, env, batch>>

\* Variants: the selection without the limit, and newest first.
SweepSelectionAll(st) ==
  OrderByCreatedAt(st, {id \in DOMAIN st : st[id].status = "pending"}, TRUE)

SweepSelectionNewest(st) ==
  Take(OrderByCreatedAt(st, {id \in DOMAIN st : st[id].status = "pending"}, FALSE), SweepLimit)

\* Variant: the sweep also selects the captures left in processing or error.
SweepSelectionUnfinished(st) ==
  Take(OrderByCreatedAt(st, {id \in DOMAIN st : st[id].status # "completed"}, TRUE), SweepLimit)

\* The sweep's query (lines 887-892): pending rows, oldest first, at most 10.
SweepSelection(st) ==
  Take(OrderByCreatedAt(st, {id \in DOMAIN st : st[id].status = "pending"}, TRUE), SweepLimit)

\* processPendingCaptures() is called (lines 882-897); requested is the
\* count the caller has in mind, which the function has no parameter for.
StartSweep(requested, fetched) ==
  /\ batch.op = "none"
  /\ batch' = IF env.supabase /\ fetched = "ok"
              THEN [NoBatch EXCEPT !.op = "processPendingCaptures", !.pc = "loop",
                                   !.arg = requested, !.selected = SweepSelection(store),
                                   !.queue = SweepSelection(store), !.before = <<store>>]
              ELSE [NoBatch EXCEPT !.op = "processPendingCaptures", !.pc = "done",
                                   !.arg = requested, !.before = <<store>>]
  /\ UNCHANGED <<store, run, clock, env, tasks>>

\* processPendingCaptures() is called once more after it has returned
\* (lines 882-900; routes/capture.js 482-484), while fewer than MaxClock runs have been made.
SweepAgain(fetched) ==
  /\ batch.op = "processPendingCaptures" /\ batch.pc = "done"
  /\ clock < MaxClock
  /\ batch' = IF env.supabase /\ fetched = "ok"
              THEN [NoBatch EXCEPT !.op = "processPendingCaptures", !.pc = "loop",
                                   !.arg = batch.arg, !.selected = SweepSelection(store),
                                   !.queue = SweepSelection(store), !.before = <<store>>]
              ELSE [NoBatch EXCEPT !.op = "processPendingCaptures", !.pc = "done",
                                   !.arg = batch.arg, !.before = <<store>>]
  /\ UNCHANGED <<store, run, clock, env, tasks>>

\* Variant: the loop does not await the run it starts.
SweepCallUnawaited(w) ==
  /\ batch.op = "processPendingCaptures" /\ batch.pc = "loop"
  /\ batch.queue # <<>>
  /\ w \notin tasks.active
  /\ BeginProcessCapture(w, Head(batch.queue), FALSE)
  /\ batch' = [batch EXCEPT !.worker = w, !.queue = Tail(@), !.processed = @ + 1]
  /\ UNCHANGED tasks

\* The loop calls processCapture on the next selected capture (lines
\* 902-903).
SweepCall(w) ==
  /\ batch.op = "processPendingCaptures" /\ batch.pc = "loop"
  /\ batch.queue # <<>>
  /\ w \notin tasks.active
  /\ BeginProcessCapture(w, Head(batch.queue), FALSE)
  /\ batch' = [batch EXCEPT !.pc = "await", !.worker = w, !.queue = Tail(@)]
  /\ UNCHANGED tasks

\* The awaited run settles (lines 903-908): its result is counted; a
\* rejection would leave the function through the await.
SweepCount ==
  /\ batch.op = "processPendingCaptures" /\ batch.pc = "await"
  /\ run[batch.worker].pc \in {"done", "rejected"}
  /\ batch' = IF run[batch.worker].pc = "rejected"
              THEN [batch EXCEPT !.pc = "rejected"]
              ELSE IF run[batch.worker].result.success
              THEN [batch EXCEPT !.pc = "loop", !.processed = @ + 1]
              ELSE [batch EXCEPT !.pc = "loop", !.failed = @ + 1]
  /\ UNCHANGED <<store, run, clock, env, tasks>>

\* The loop is over (lines 911-912).
SweepReturn ==
  /\ batch.op = "processPendingCaptures" /\ batch.pc = "loop"
  /\ batch.queue = <<>>
  /\ batch' = [batch EXCEPT !.pc = "done"]
  /\ UNCHANGED <<store, run, clock, env, tasks>>

\* ------------------------------------------------------------ settings

\* The keys of MODELS (part_017 4-41).
Models == {"claude-haiku", "claude-sonnet", "gpt-4o-mini"}
DEFAULT_MODEL == "claude-haiku"

\* getModelConfig(key): the configuration of the key, or the default's; a
\* configuration is named by its key.
getModelConfig(key) == IF key \in Models THEN key ELSE DEFAULT_MODEL

\* The AI calls that resolve their model.
Callers == {"a1", "a2"}

\* db: ai_model of the settings row.  cachedSettings and currentModelConfig:
\* the module variables of settings.js and ai.js.  put: the PUT /settings
\* request; call: each AI call's getCurrentModel, seen being the answer to
\* its store read, used the model it goes on with, afterPut whether it
\* started when the PUT request had completed.
NoSettings ==
  [ db |-> DEFAULT_MODEL, cachedSettings |-> Null, currentModelConfig |-> Null,
    put |-> [pc |-> "idle", aiModel |-> "", ok |-> FALSE, seen |-> Null],
    call |-> [c \in Callers |->
                [pc |-> "idle", seen |-> Null, used |-> "", afterPut |-> FALSE]] ]

PipelineUnchanged == UNCHANGED <<store, run, clock, env, tasks, batch>>

\* getCurrentModel() up to its first suspension (part_013 17-28, settings.js
\* 14-29): the cached model, or the cached settings, or a store read.
getCurrentModel(c) ==
  /\ settings.call[c].pc = "idle"
  /\ LET known == IF settings.currentModelConfig # Null THEN settings.currentModelConfig
                  ELSE IF ~env.supabase THEN Some(getModelConfig(DEFAULT_MODEL))
                  ELSE IF settings.cachedSettings # Null
                  THEN Some(getModelConfig(settings.cachedSettings[1]))
                  ELSE Null
         after == settings.put.pc = "done"
     IN settings' =
          IF known # Null
          THEN [settings EXCEPT !.currentModelConfig = known,
                                !.call[c] = [pc |-> "done", seen |-> Null,
                                             used |-> known[1], afterPut |-> after]]
          ELSE [settings EXCEPT !.call[c] = [pc |-> "read", seen |-> Null,
                                             used |-> "", afterPut |-> after]]
  /\ PipelineUnchanged

\* The store answers the read of getSettings with the row as it is then.
SettingsRead(c, o) ==
  /\ settings.call[c].pc = "read"
  /\ settings' = [settings EXCEPT
       !.call[c].pc = "answered",
       !.call[c].seen = IF o = "ok" THEN Some(settings.db) ELSE Null]
  /\ PipelineUnchanged

\* The read resolves in the caller (settings.js 31-45, part_013 19-27): the
\* answer goes to the settings cache and its model to the model cache; after
\* a failed read the default model does.
getSettingsResolves(c) ==
  /\ settings.call[c].pc = "answered"
  /\ LET seen == settings.call[c].seen
         model == IF seen # Null THEN getModelConfig(seen[1]) ELSE getModelConfig(DEFAULT_MODEL)
     IN settings' = [settings EXCEPT
          !.cachedSettings = IF seen # Null THEN seen ELSE @,
          !.currentModelConfig = Some(model),
          !.call[c].pc = "done", !.call[c].used = model]
  /\ PipelineUnchanged

\* PUT /settings with a model (routes/capture.js 546-552, settings.js
\* 53-75): updateSettings issues the update.
PutSettings(aiModel) ==
  /\ settings.put.pc = "idle"
  /\ env.supabase
  /\ settings' = [settings EXCEPT !.put.pc = "update", !.put.aiModel = aiModel]
  /\ PipelineUnchanged

\* The store applies the update, or fails it.
SettingsUpdate(o) ==
  /\ settings.put.pc = "update"
  /\ settings' = [settings EXCEPT
       !.db = IF o = "ok" THEN settings.put.aiModel ELSE @,
       !.put.ok = (o = "ok"), !.put.pc = "updated"]
  /\ PipelineUnchanged

\* The update resolves in the handler (settings.js 76-88, routes/capture.js
\* 552-561): on failure the 400 response; otherwise both caches are cleared
\* and getSettingsWithOptions issues its read.
updateSettingsResolves ==
  /\ settings.put.pc = "updated"
  /\ settings' = IF settings.put.ok
                 THEN [settings EXCEPT !.cachedSettings = Null, !.currentModelConfig = Null,
                                       !.put.pc = "read"]
                 ELSE [settings EXCEPT !.put.pc = "failed"]
  /\ PipelineUnchanged

\* The store answers the handler's read.
PutRead(o) ==
  /\ settings.put.pc = "read"
  /\ settings' = [settings EXCEPT
       !.put.pc = "answered",
       !.put.seen = IF o = "ok" THEN Some(settings.db) ELSE Null]
  /\ PipelineUnchanged

\* The handler's read resolves and the response is sent (settings.js 31-45,
\* routes/capture.js 561-566).
PutResolves ==
  /\ settings.put.pc = "answered"
  /\ settings' = [settings EXCEPT
       !.cachedSettings = IF settings.put.seen # Null THEN settings.put.seen ELSE @,
       !.put.pc = "done"]
  /\ PipelineUnchanged

\* ------------------------------------------------------------ specification

Init ==
  /\ store = [id \in CaptureIds |-> NewCapture(id)]
  /\ run = [w \in Workers |-> IdleRun]
  /\ clock = 0
  /\ env \in [supabase : BOOLEAN, ai : BOOLEAN, embeddings : BOOLEAN]
  /\ tasks = NoTasks
  /\ batch = NoBatch
  /\ settings = NoSettings

StoreOutcomes == {"ok", "err"}
ImageOutcomes == {"ok", "err", "-"}
EmbedOutcomes == {"off", "throw", "ok"}

\* A retry replays the outcomes of the run before it: those of the scrape,
\* image, AI and embedding calls, and whether the store answered the fetch and
\* the final write.  The transition write and the corrective write answer
\* freely.
Replays(w, o, scripted) == run[w].replay => o = scripted

\* The steps of one invocation, each external call with any of its outcomes.
Step(w) ==
  \/ \E o \in StoreOutcomes : Replays(w, o, run[w].script.fetch) /\ FetchCapture(w, o)
  \/ \E o \in StoreOutcomes : MarkProcessing(w, o)
  \/ \E o \in ScrapeOutcomes \cup {NoScrape} :
       Replays(w, o, run[w].script.scrape) /\ ScrapeContent(w, o)
  \/ ExtractMetadata(w)
  \/ \E o \in ImageOutcomes : Replays(w, o, run[w].script.image) /\ StoreImage(w, o)
  \/ \E o \in AiOutcomes \cup {NoAi} : Replays(w, o, run[w].script.ai) /\ AiProcessing(w, o)
  \/ \E o \in EmbedOutcomes : Replays(w, o, run[w].script.embed) /\ GenerateEmbeddings(w, o)
  \/ \E o \in StoreOutcomes : Replays(w, o, run[w].script.final) /\ FinalUpdate(w, o)
  \/ \E o \in StoreOutcomes : CatchError(w, o)

\* A call of processCapture on any id (intake, POST /reprocess/:id).
Call(w) == \E id \in CaptureIds \cup {GhostId} : StartProcessCapture(w, id, FALSE)

\* The call just returned is made again and every external call answers as
\* it did before.
Retry(w) == run[w].pc = "done" /\ StartProcessCapture(w, run[w].id, TRUE)

\* One invocation at a time.
Next ==
  /\ \/ Call("w1")
     \/ Step("w1")
  /\ UNCHANGED <<tasks, batch>>

Spec == Init /\ [][Next /\ UNCHANGED settings]_vars

\* The same, and any returned call may be retried once.
NextRetry ==
  /\ \/ Call("w1")
     \/ Retry("w1")
     \/ Step("w1")
  /\ UNCHANGED <<tasks, batch>>

SpecRetry == Init /\ [][NextRetry /\ UNCHANGED settings]_vars

\* A configured deployment in which the store and the services answer; the
\* categorization response is any of AiResponses.  Tag edits arrive between
\* runs.
InitTags == Init /\ env = [supabase |-> TRUE, ai |-> TRUE, embeddings |-> FALSE]

PatchBodies ==
  { [tags |-> ArrayOf(<<"AI", "ai">>)], [tags |-> ArrayOf(<<"js", "js">>)],
    [tags |-> NotAnArray], [category |-> "work"] }

Pipeline(w) ==
  \/ \E id \in CaptureIds : StartProcessCapture(w, id, FALSE)
  \/ FetchCapture(w, "ok")
  \/ MarkProcessing(w, "ok")
  \/ \E o \in {NoScrape, CHOOSE s \in ScrapeOutcomes : s.success /\ s.html = PlainHtml} :
       ScrapeContent(w, o)
  \/ ExtractMetadata(w)
  \/ StoreImage(w, "-")
  \/ \E o \in AiOutcomes : o.kind = "ok" /\ AiProcessing(w, o)
  \/ GenerateEmbeddings(w, "off")
  \/ FinalUpdate(w, "ok")

TagEdits(w) ==
  /\ Finished(w)
  /\ \/ \E id \in CaptureIds, body \in PatchBodies, o \in StoreOutcomes : PatchCapture(id, body, o)
     \/ \E t \in TagNames, fetched \in BOOLEAN, applied \in SUBSET CaptureIds :
          deleteTag(t, fetched, applied)
     \/ \E s \in TagNames, t \in TagNames, fetched \in BOOLEAN, applied \in SUBSET CaptureIds :
          mergeTags(s, t, fetched, applied)
     \/ \E old \in TagNames, new \in TagNames, fetched \in BOOLEAN, applied \in SUBSET CaptureIds :
          renameTag(old, new, fetched, applied)

NextTags ==
  /\ \/ Pipeline("w1")
     \/ TagEdits("w1")
  /\ UNCHANGED <<tasks, batch>>

SpecTags == InitTags /\ [][NextTags /\ UNCHANGED settings]_vars

\* One run of a configured deployment on a capture, the scoring response
\* carrying any pair of raw values, or no parseable object.
InitScore == Init /\ env = [supabase |-> TRUE, ai |-> TRUE, embeddings |-> FALSE]

RawNumbers == (ScoreMin - 1 - RawSpan)..(ScoreMax + RawSpan)

RawValues ==
  { RawInt(n) : n \in RawNumbers } \cup { RawFloat(n) : n \in RawNumbers }
  \cup { RawNumText(n) : n \in RawNumbers } \cup {RawText, RawMissing}

ScoreResponses ==
  { [parsed |-> TRUE, quality |-> q, actionability |-> a] : q \in RawValues, a \in RawValues }
  \cup { MalformedResponse.score }

ScoreOutcomes == { [kind |-> "ok", resp |-> [GoodResponse EXCEPT !.score = s]] : s \in ScoreResponses }

NextScore ==
  /\ \/ clock = 0 /\ StartProcessCapture("w1", "c1", FALSE)
     \/ FetchCapture("w1", "ok")
     \/ MarkProcessing("w1", "ok")
     \/ \E o \in ScrapeOutcomes : o.html = PlainHtml /\ ScrapeContent("w1", o)
     \/ ExtractMetadata("w1")
     \/ StoreImage("w1", "-")
     \/ \E o \in ScoreOutcomes : AiProcessing("w1", o)
     \/ GenerateEmbeddings("w1", "off")
     \/ \E o \in StoreOutcomes : FinalUpdate("w1", o)
     \/ CatchError("w1", "ok")
  /\ UNCHANGED <<tasks, batch>>

SpecScore == InitScore /\ [][NextScore /\ UNCHANGED settings]_vars

\* A configured deployment: the run of each pending capture with a generated
\* title of any of TitleResponses or a failing AI stage, and a display title
\* backfill.
InitTitles == Init /\ env = [supabase |-> TRUE, ai |-> TRUE, embeddings |-> FALSE]

TitleLens == {0} \cup ((TitleMax - TitleSpan)..(TitleMax + TitleSpan))

TitleResponses ==
  { [text |-> "title T", len |-> n, quotes |-> q] : n \in TitleLens, q \in 0..2 } \ 
  { [text |-> "title T", len |-> 0, quotes |-> q] : q \in 1..2 }

TitleOutcomes ==
  { [kind |-> "throw", resp |-> GoodResponse] }
  \cup { [kind |-> "ok", resp |-> [GoodResponse EXCEPT !.title = t]] : t \in TitleResponses }

NextTitles ==
  \/ /\ \/ \E id \in CaptureIds :
             store[id].status = "pending" /\ StartProcessCapture("w1", id, FALSE)
        \/ FetchCapture("w1", "ok")
        \/ MarkProcessing("w1", "ok")
        \/ \E o \in {NoScrape, CHOOSE x \in ScrapeOutcomes : x.success /\ x.html = PlainHtml} :
             ScrapeContent("w1", o)
        \/ ExtractMetadata("w1")
        \/ StoreImage("w1", "-")
        \/ \E o \in TitleOutcomes : AiProcessing("w1", o)
        \/ GenerateEmbeddings("w1", "off")
        \/ FinalUpdate("w1", "ok")
     /\ UNCHANGED <<tasks, batch>>
  \/ /\ Finished("w1")
     /\ \E limit \in 1..MaxLimit, fetched \in StoreOutcomes, counted \in StoreOutcomes :
          \E answers \in [Range(BackfillSelection(store, "display_title", limit)) ->
                            BackfillSteps(TitleResponses)] :
            backfillDisplayTitles(limit, fetched, answers, counted)

SpecTitles == InitTitles /\ [][NextTitles /\ UNCHANGED settings]_vars

\* Eleven captures, no AI or embedding service.  Captures c1 and c2 may be
\* processed before the sweep is called; during the sweep the store fails a
\* fetch or a final update while fewer than MaxFaults runs have failed.
InitSweep ==
  /\ store = [id \in Range(IdOrder) |-> NewCapture(id)]
  /\ run = [w \in Workers |-> IdleRun]
  /\ clock = 0
  /\ env \in [supabase : BOOLEAN, ai : {FALSE}, embeddings : {FALSE}]
  /\ tasks = NoTasks
  /\ batch = NoBatch
  /\ settings = NoSettings

SweepStoreOutcomes ==
  IF batch.op # "none" /\ batch.failed < MaxFaults THEN StoreOutcomes ELSE {"ok"}

\* The steps of a run without AI and embedding service.
PlainStep(w, fetches, outcomes) ==
  \/ \E o \in fetches : FetchCapture(w, o)
  \/ MarkProcessing(w, "ok")
  \/ ScrapeContent(w, NoScrape)
  \/ ExtractMetadata(w)
  \/ StoreImage(w, "-")
  \/ AiProcessing(w, NoAi)
  \/ GenerateEmbeddings(w, "off")
  \/ \E o \in outcomes : FinalUpdate(w, o)
  \/ CatchError(w, "ok")

NextSweep ==
  \/ /\ \/ \E id \in CaptureIds :
             /\ batch.op = "none" /\ store[id].status = "pending"
             /\ StartProcessCapture("w1", id, FALSE)
        \/ PlainStep("w1", SweepStoreOutcomes, SweepStoreOutcomes)
     /\ UNCHANGED <<tasks, batch>>
  \/ \E requested \in 1..MaxLimit, fetched \in StoreOutcomes :
       Finished("w1") /\ StartSweep(requested, fetched)
  \/ SweepCall("w1")
  \/ SweepCount
  \/ SweepReturn

SpecSweep == InitSweep /\ [][NextSweep /\ UNCHANGED settings]_vars

\* Any deployment with a store: each pending capture is processed, the AI
\* stage and the embedding call answering or throwing, and then one of the
\* two backfills is called.
InitBackfill == Init /\ env.supabase

NextBackfill ==
  \/ /\ \/ \E id \in CaptureIds :
             /\ batch.op = "none" /\ store[id].status = "pending"
             /\ StartProcessCapture("w1", id, FALSE)
        \/ FetchCapture("w1", "ok")
        \/ MarkProcessing("w1", "ok")
        \/ ScrapeContent("w1", NoScrape)
        \/ ExtractMetadata("w1")
        \/ StoreImage("w1", "-")
        \/ \E o \in {NoAi, [kind |-> "throw", resp |-> GoodResponse],
                      [kind |-> "ok", resp |-> GoodResponse]} : AiProcessing("w1", o)
        \/ \E o \in EmbedOutcomes : GenerateEmbeddings("w1", o)
        \/ FinalUpdate("w1", "ok")
     /\ UNCHANGED <<tasks, batch>>
  \/ /\ Finished("w1")
     /\ \E limit \in 1..MaxLimit, fetched \in StoreOutcomes, counted \in StoreOutcomes :
          \/ \E answers \in [Range(BackfillSelection(store, "display_title", limit)) ->
                               BackfillSteps({GoodResponse.title})] :
               backfillDisplayTitles(limit, fetched, answers, counted)
          \/ \E answers \in [Range(BackfillSelection(store, "embedding", limit)) ->
                               BackfillSteps({"vector"})] :
               backfillEmbeddings(limit, fetched, answers, counted)

SpecBackfill == InitBackfill /\ [][NextBackfill /\ UNCHANGED settings]_vars

\* A deployment with a store and no AI or embedding service, empty at first:
\* captures are posted, their scheduled runs and a sweep take their steps in
\* any order, and the store may fail an insert, the sweep's query or a final
\* update.
InitService ==
  /\ store = <<>>
  /\ run = [w \in Workers |-> IdleRun]
  /\ clock = 0
  /\ env = [supabase |-> TRUE, ai |-> FALSE, embeddings |-> FALSE]
  /\ tasks = NoTasks
  /\ batch = NoBatch
  /\ settings = NoSettings

\* Invocation records are taken in a fixed order.
FirstFree(w) ==
  LET free == {v \in Workers : Finished(v) /\ v \notin tasks.active
                                /\ ~(batch.pc = "await" /\ batch.worker = v)}
  IN w \in free /\ (w = "w1" \/ "w1" \notin free)

NextService ==
  \/ \E id \in Range(IdOrder), o \in StoreOutcomes :
       Cardinality(DOMAIN store) < MaxPosts /\ PostCapture(id, o)
  \/ \E w \in Workers : FirstFree(w) /\ StartTask(w)
  \/ \E w \in Workers : EndTask(w)
  \/ \E w \in Workers : PlainStep(w, {"ok"}, StoreOutcomes) /\ UNCHANGED <<tasks, batch>>
  \/ \E fetched \in StoreOutcomes : StartSweep(MaxLimit, fetched)
  \/ \E w \in Workers : FirstFree(w) /\ SweepCall(w)
  \/ SweepCount
  \/ SweepReturn

SpecService == InitService /\ [][NextService /\ UNCHANGED settings]_vars

\* Any deployment: direct calls of processCapture, a sweep and the two
\* backfills, one after another, with every store request and every service
\* call failing or answering.
CallStep(w) ==
  \/ \E o \in StoreOutcomes : FetchCapture(w, o)
  \/ MarkProcessing(w, "ok")
  \/ ScrapeContent(w, NoScrape)
  \/ ExtractMetadata(w)
  \/ StoreImage(w, "-")
  \/ \E o \in {NoAi, [kind |-> "throw", resp |-> GoodResponse],
                [kind |-> "ok", resp |-> GoodResponse]} : AiProcessing(w, o)
  \/ \E o \in EmbedOutcomes : GenerateEmbeddings(w, o)
  \/ \E o \in StoreOutcomes : FinalUpdate(w, o)
  \/ \E o \in StoreOutcomes : CatchError(w, o)

NextCalls ==
  \/ /\ \/ \E id \in CaptureIds \cup {GhostId} :
             batch.pc \in {"idle", "done"} /\ StartProcessCapture("w1", id, FALSE)
        \/ CallStep("w1")
     /\ UNCHANGED <<tasks, batch>>
  \/ \E fetched \in StoreOutcomes : Finished("w1") /\ StartSweep(MaxLimit, fetched)
  \/ SweepCall("w1")
  \/ SweepCount
  \/ SweepReturn
  \/ /\ Finished("w1")
     /\ \E limit \in 1..MaxLimit, fetched \in StoreOutcomes, counted \in StoreOutcomes :
          \/ \E answers \in [Range(BackfillSelection(store, "display_title", limit)) ->
                               BackfillSteps({GoodResponse.title})] :
               backfillDisplayTitles(limit, fetched, answers, counted)
          \/ \E answers \in [Range(BackfillSelection(store, "embedding", limit)) ->
                               BackfillSteps({"vector"})] :
               backfillEmbeddings(limit, fetched, answers, counted)

SpecCalls == Init /\ [][NextCalls /\ UNCHANGED settings]_vars

\* A configured deployment without embeddings: runs in which every
\* generation call answers or exactly one of them fails.
InitAi == Init /\ env = [supabase |-> TRUE, ai |-> TRUE, embeddings |-> FALSE]

NextAi ==
  /\ \/ \E id \in CaptureIds : StartProcessCapture("w1", id, FALSE)
     \/ FetchCapture("w1", "ok")
     \/ MarkProcessing("w1", "ok")
     \/ \E o \in ScrapeOutcomes : ScrapeContent("w1", o)
     \/ ExtractMetadata("w1")
     \/ \E o \in ImageOutcomes : StoreImage("w1", o)
     \/ \E o \in CallFailures \cup {[kind |-> "ok", resp |-> GoodResponse]} :
          AiProcessing("w1", o)
     \/ GenerateEmbeddings("w1", "off")
     \/ FinalUpdate("w1", "ok")
  /\ UNCHANGED <<tasks, batch>>

SpecAi == InitAi /\ [][NextAi /\ UNCHANGED settings]_vars

\* A fully configured deployment: one run, whose generation and embedding
\* calls start ledger writes that settle at any later time in any way.
InitUsage == Init /\ env = [supabase |-> TRUE, ai |-> TRUE, embeddings |-> TRUE]

NextUsage ==
  \/ /\ \/ \E id \in CaptureIds : clock = 0 /\ StartProcessCapture("w1", id, FALSE)
        \/ FetchCapture("w1", "ok")
        \/ MarkProcessing("w1", "ok")
        \/ ScrapeContent("w1", NoScrape)
        \/ ExtractMetadata("w1")
        \/ StoreImage("w1", "-")
        \/ \E o \in StoreOutcomes : FinalUpdate("w1", o)
        \/ CatchError("w1", "ok")
     /\ UNCHANGED <<tasks, batch>>
  \/ \E o \in CallFailures \cup {[kind |-> "ok", resp |-> GoodResponse]} :
       AiProcessingWithUsage("w1", o)
  \/ \E o \in EmbedOutcomes : GenerateEmbeddingsWithUsage("w1", o)
  \/ \E entry \in tasks.usage.pending, o \in UsageOutcomes : recordUsage(entry, o)

SpecUsage == InitUsage /\ [][NextUsage /\ UNCHANGED settings]_vars

\* A fully configured deployment: direct calls, a sweep and the backfills as
\* in SpecCalls with the store failing a final update, and captures synced
\* to Notion at any time.
InitFrame == Init /\ env = [supabase |-> TRUE, ai |-> TRUE, embeddings |-> TRUE]

FrameStep(w) ==
  \/ FetchCapture(w, "ok")
  \/ MarkProcessing(w, "ok")
  \/ ScrapeContent(w, NoScrape)
  \/ ExtractMetadata(w)
  \/ StoreImage(w, "-")
  \/ \E o \in {[kind |-> "throw", resp |-> GoodResponse],
                [kind |-> "ok", resp |-> GoodResponse]} : AiProcessing(w, o)
  \/ \E o \in EmbedOutcomes : GenerateEmbeddings(w, o)
  \/ \E o \in StoreOutcomes : FinalUpdate(w, o)
  \/ CatchError(w, "ok")

NextFrame ==
  \/ /\ \/ \E id \in CaptureIds :
             batch.pc \in {"idle", "done"} /\ StartProcessCapture("w1", id, FALSE)
        \/ FrameStep("w1")
     /\ UNCHANGED <<tasks, batch>>
  \/ Finished("w1") /\ StartSweep(MaxLimit, "ok")
  \/ SweepCall("w1")
  \/ SweepCount
  \/ SweepReturn
  \/ /\ Finished("w1")
     /\ \E limit \in 1..MaxLimit :
          \/ \E answers \in [Range(BackfillSelection(store, "display_title", limit)) ->
                               BackfillSteps({GoodResponse.title})] :
               backfillDisplayTitles(limit, "ok", answers, "ok")
          \/ \E answers \in [Range(BackfillSelection(store, "embedding", limit)) ->
                               BackfillSteps({"vector"})] :
               backfillEmbeddings(limit, "ok", answers, "ok")
  \/ \E id \in CaptureIds, synced \in BOOLEAN : NotionSync(id, synced)

SpecFrame == InitFrame /\ [][NextFrame /\ UNCHANGED settings]_vars

\* A deployment with a store and no AI or embedding service: calls of
\* processCapture on any capture that run side by side; every write is
\* applied, a fetch may fail.
InitRace == Init /\ env = [supabase |-> TRUE, ai |-> FALSE, embeddings |-> FALSE]

NextRace ==
  /\ \/ \E w \in Workers, id \in CaptureIds : StartProcessCapture(w, id, FALSE)
     \/ \E w \in Workers : PlainStep(w, StoreOutcomes, {"ok"})
  /\ UNCHANGED <<tasks, batch>>

SpecRace == InitRace /\ [][NextRace /\ UNCHANGED settings]_vars

\* A deployment whose settings row holds a model: one PUT /settings with any
\* model and two AI calls resolving their model, in any order; the store
\* answers every request on the settings table.
InitSettings ==
  /\ Init
  /\ env = [supabase |-> TRUE, ai |-> TRUE, embeddings |-> FALSE]

NextSettings ==
  \/ \E c \in Callers : getCurrentModel(c)
  \/ \E c \in Callers : SettingsRead(c, "ok")
  \/ \E c \in Callers : getSettingsResolves(c)
  \/ \E m \in Models : PutSettings(m)
  \/ \E o \in StoreOutcomes : SettingsUpdate(o)
  \/ updateSettingsResolves
  \/ PutRead("ok")
  \/ PutResolves

SpecSettings == InitSettings /\ [][NextSettings]_vars

\* A store without AI and embedding service: direct calls of processCapture
\* between sweeps, any number of sweeps one after another, and every store
\* request of a run answered or failed, so that runs leave captures in
\* pending, processing, completed and error.
InitSweeps == Init /\ env = [supabase |-> TRUE, ai |-> FALSE, embeddings |-> FALSE]

SweepsStep(w) ==
  \/ \E o \in StoreOutcomes : FetchCapture(w, o)
  \/ \E o \in StoreOutcomes : MarkProcessing(w, o)
  \/ ScrapeContent(w, NoScrape)
  \/ ExtractMetadata(w)
  \/ StoreImage(w, "-")
  \/ AiProcessing(w, NoAi)
  \/ GenerateEmbeddings(w, "off")
  \/ \E o \in StoreOutcomes : FinalUpdate(w, o)
  \/ \E o \in StoreOutcomes : CatchError(w, o)

NextSweeps ==
  \/ /\ \/ \E id \in CaptureIds :
             batch.pc \in {"idle", "done"} /\ StartProcessCapture("w1", id, FALSE)
        \/ SweepsStep("w1")
     /\ UNCHANGED <<tasks, batch>>
  \/ \E fetched \in StoreOutcomes : Finished("w1") /\ StartSweep(MaxLimit, fetched)
  \/ \E fetched \in StoreOutcomes : Finished("w1") /\ SweepAgain(fetched)
  \/ SweepCall("w1")
  \/ SweepCount
  \/ SweepReturn

SpecSweeps == InitSweeps /\ [][NextSweeps /\ UNCHANGED settings]_vars

\* ------------------------------------------------------------ claims

Returned(w) == run[w].pc = "done" /\ env.supabase
Exists(w) == run[w].id \in DOMAIN store
Row(w) == store[run[w].id]
Pre(w) == run[w].pre[1]

\* The status the row holds when the catch block runs: processing once the
\* transition write was applied, otherwise what it was before the call.
StatusBeforeCatch(w) == IF run[w].out.mark = "ok" THEN "processing" ELSE Pre(w).status

\* C1 (as stated): once processCapture has returned for a capture of the
\* store, its status is completed or error, whatever failed during the run.
C1_StatusTerminalOnReturn ==
  \A w \in Workers :
    Returned(w) /\ Exists(w) => Row(w).status \in {"completed", "error"}

\* C1 (amended): once processCapture has returned for a capture of the store,
\* the status is completed when it returned success, error when it returned
\* failure and the corrective update was applied, and otherwise (the
\* corrective update failed too) what it was when the catch block ran:
\* processing, or the status before the call if the transition write was
\* not applied.
C1_StatusOnReturn ==
  \A w \in Workers :
    Returned(w) /\ Exists(w) =>
      /\ run[w].result.success => Row(w).status = "completed"
      /\ ~run[w].result.success /\ run[w].out.corrective = "ok" => Row(w).status = "error"
      /\ ~run[w].result.success /\ run[w].out.corrective = "err" =>
           Row(w).status = StatusBeforeCatch(w)

C1_Witness ==
  \E w \in Workers :
    /\ Returned(w) /\ Exists(w)
    /\ run[w].out.final = "err" /\ run[w].out.corrective = "err"
    /\ Row(w).status = "processing"

\* C2: when the record fetch succeeded and the final update did not fail, the
\* call returns success and the status is completed, whichever enrichment
\* sub-stages failed; an embedding call that throws adds no embedding to the
\* update, so the column keeps its value (null on a first run).
C2_CompletedDespiteStageFailures ==
  \A w \in Workers :
    Returned(w) /\ run[w].out.fetch = "ok" /\ run[w].out.final # "err" =>
      /\ run[w].result = [success |-> TRUE, error |-> ""]
      /\ Row(w).status = "completed"
      /\ run[w].out.embed = "throw" =>
           /\ "embedding" \notin DOMAIN run[w].updates
           /\ Row(w).embedding = Pre(w).embedding

C2_Witness ==
  \E w \in Workers :
    /\ Returned(w) /\ run[w].result.success
    /\ isScrapeable(Row(w).url) /\ ~run[w].out.scrape.success
    /\ run[w].out.ai.kind = "throw" /\ run[w].out.embed = "throw"
    /\ Row(w).status = "completed" /\ Row(w).embedding = Null

\* The write that moves a row to status error.
BecomesError(id) == store[id].status # "error" /\ store'[id].status = "error"

C4_ErrorLeavesEnrichment ==
  \A w \in Workers :
    Returned(w) /\ Exists(w) /\ Row(w).status = "error" =>
      /\ Row(w).error_message \notin {Null, Some("")}
      /\ Enrichment(Row(w)) = Enrichment(Pre(w))

C4_Witness ==
  \E w \in Workers :
    /\ Returned(w) /\ Exists(w) /\ Row(w).status = "error"
    /\ run[w].out.final = "err" /\ run[w].out.ai.kind = "ok"
    /\ Pre(w).summary # Null /\ Pre(w).summary # run[w].updates.summary

AiFields ==
  { "summary", "category", "tags", "quality_score", "actionability_score",
    "display_title", "key_takeaways", "action_items" }

\* What the sub-stages of a returned run did.
ScrapeFailed(w) == isScrapeable(run[w].capture[1].url) /\ ~run[w].out.scrape.success
AiProduced(w) == run[w].out.ai.kind = "ok" /\ run[w].aiInput # Null
Kept(w, fields) == \A f \in fields : Row(w)[f] = Pre(w)[f]
Omitted(w, fields) == fields \cap DOMAIN run[w].updates = {}

\* C5 (as stated): after a successful run, the fields of every failed
\* sub-stage (scrape: content; author extraction: author_name; image
\* extraction or storage: image_url; AI analysis; embedding) hold the value
\* they had before the run.
C5_FailedStageKeepsFields ==
  \A w \in Workers :
    Returned(w) /\ run[w].result.success =>
      /\ ScrapeFailed(w) => Kept(w, {"content"})
      /\ run[w].authorName = Null => Kept(w, {"author_name"})
      /\ run[w].out.image # "ok" => Kept(w, {"image_url"})
      /\ ~AiProduced(w) => Kept(w, AiFields)
      /\ run[w].out.embed # "ok" => Kept(w, {"embedding"})

\* C5 (amended): only the AI and the embedding stage leave their fields out
\* of the final update when they fail, so only those keep their earlier
\* value.  content, author_name, image_url and source_platform are written
\* by every successful run, as null when the scrape, the author extraction
\* or the image stage produced nothing, also over an earlier value.
C5_OnlyAiAndEmbeddingOmitted ==
  \A w \in Workers :
    Returned(w) /\ run[w].result.success =>
      /\ ~AiProduced(w) => Omitted(w, AiFields) /\ Kept(w, AiFields)
      /\ run[w].out.embed # "ok" => Omitted(w, {"embedding"}) /\ Kept(w, {"embedding"})
      /\ {"content", "author_name", "image_url", "source_platform"} \subseteq DOMAIN run[w].updates
      /\ Row(w).content = IF run[w].out.scrape.success /\ run[w].out.scrape.content # ""
                          THEN Some(run[w].out.scrape.content) ELSE Null
      /\ Row(w).author_name = run[w].authorName
      /\ Row(w).image_url = IF run[w].out.image = "ok"
                            THEN Some(StoredImageUrl(run[w].id)) ELSE Null

C5_Witness ==
  \E w \in Workers :
    /\ Returned(w) /\ run[w].result.success
    /\ ScrapeFailed(w) /\ Pre(w).content # Null /\ Row(w).content = Null
    /\ Pre(w).image_url # Null /\ Row(w).image_url = Null
    /\ run[w].out.ai.kind = "throw" /\ Pre(w).summary # Null
    /\ Row(w).summary = Pre(w).summary

\* C6 (as stated): a call with an id that is not in the store returns
\* {success: false} and has issued no update request.
C6_NoRequestForMissingId ==
  \A w \in Workers :
    Returned(w) /\ ~Exists(w) => ~run[w].result.success /\ run[w].nUpdates = 0

\* C6 (amended): a call with an id that is not in the store changes no row
\* and returns {success: false, error} with the fetch failure's message; its
\* catch block has issued one update request, the corrective one, which
\* matches no row.
C6_MissingIdChangesNoRow ==
  [][\A w \in Workers :
       run[w].pc \notin {"idle", "done"} /\ ~Exists(w) =>
         /\ store' = store
         /\ run'[w].pc = "done" =>
              /\ run'[w].result = [success |-> FALSE, error |-> FetchFailed]
              /\ run'[w].nReads = 1 /\ run'[w].nUpdates = 1]_vars

C6_Witness ==
  \E w \in Workers :
    /\ Returned(w) /\ ~Exists(w)
    /\ run[w].out.corrective = "ok" /\ run[w].nUpdates = 1
    /\ ~run[w].result.success

\* C7: a run made again on the same capture with the scrape, image, AI and
\* embedding calls answering as in the run before, and the store answering
\* its fetch and its final write as before, leaves the enrichment fields exactly as
\* that run left them, whatever the capture's state before the first of the
\* two.
C7_IdempotentRetry ==
  \A w \in Workers :
    Returned(w) /\ Exists(w) /\ run[w].replay =>
      Enrichment(Row(w)) = Enrichment(Pre(w))

C7_Witness ==
  \E w \in Workers :
    /\ Returned(w) /\ Exists(w) /\ run[w].replay /\ run[w].result.success
    /\ AiProduced(w) /\ run[w].out.embed = "ok"
    /\ Row(w).embedding # Null /\ Row(w).summary # Null
    /\ clock > MaxRuns

\* The embedding column as computed from the row's own text fields.
EmbeddingOf(rec) == Some(formatForPgVector(generateCaptureEmbedding(rec)))

\* A successful run on a completed capture whose AI stage answered
\* differently from what the row held.
ReprocessedAnew(w) ==
  /\ Returned(w) /\ run[w].result.success
  /\ Pre(w).status = "completed"
  /\ AiProduced(w)
  /\ \E f \in AiFields : run[w].updates[f] # Pre(w)[f]

\* C8 (as stated): after reprocessing a completed capture with different AI
\* responses every enrichment field holds the new run's value and the
\* embedding, if any, is the one of the new text fields.
C8_NoStaleFieldAfterReprocess ==
  \A w \in Workers :
    ReprocessedAnew(w) =>
      /\ \A f \in AiFields : Row(w)[f] = run[w].updates[f]
      /\ Row(w).embedding # Null => Row(w).embedding = EmbeddingOf(Row(w))

\* C8 (amended): after reprocessing a completed capture with different AI
\* responses the content, metadata and AI fields hold the new run's values;
\* the embedding is the one of the new text fields only when this run's
\* embedding call succeeded, and when it threw the embedding of the earlier
\* run stays next to the new fields.
C8_StaleOnlyEmbedding ==
  \A w \in Workers :
    ReprocessedAnew(w) =>
      /\ \A f \in EnrichmentFields \ {"embedding"} :
           f \in DOMAIN run[w].updates /\ Row(w)[f] = run[w].updates[f]
      /\ run[w].out.embed = "ok" => Row(w).embedding = EmbeddingOf(Row(w))
      /\ run[w].out.embed # "ok" => Row(w).embedding = Pre(w).embedding

C8_Witness ==
  \E w \in Workers :
    /\ ReprocessedAnew(w)
    /\ run[w].out.embed = "throw"
    /\ Pre(w).embedding # Null
    /\ Row(w).embedding = Pre(w).embedding
    /\ Row(w).embedding # EmbeddingOf(Row(w))

IsNormalized(tags) ==
  /\ \A i \in 1..Len(tags) : toLowerCase(tags[i]) = tags[i]
  /\ \A i, j \in 1..Len(tags) : tags[i] = tags[j] => i = j

\* C9 (as stated): in every state every tag list stored on a capture holds
\* only lowercase tags and no tag twice.
C9_TagsNormalized ==
  \A id \in DOMAIN store :
    store[id].tags # Null => IsNormalized(store[id].tags[1])

Scores == ScoreMin..ScoreMax

\* C10: whatever the scoring response carries for quality and actionability,
\* score() returns integers between 1 and 10, 5 and 5 for a response that
\* does not parse; the run puts exactly these into its update and every
\* score stored on a capture is between 1 and 10.
C10_ScoresClamped ==
  /\ \A w \in Workers :
       AiProduced(w) /\ run[w].pc \in {"embed", "final", "catch", "done"} =>
         LET resp == run[w].out.ai.resp.score
             out == score(resp)
         IN /\ out.quality \in Scores /\ out.actionability \in Scores
            /\ ~resp.parsed => out = [quality |-> ScoreDefault, actionability |-> ScoreDefault]
            /\ run[w].updates.quality_score = Some(out.quality)
            /\ run[w].updates.actionability_score = Some(out.actionability)
            /\ run[w].result.success =>
                 /\ Row(w).quality_score = Some(out.quality)
                 /\ Row(w).actionability_score = Some(out.actionability)
  /\ \A id \in DOMAIN store :
       /\ store[id].quality_score # Null => store[id].quality_score[1] \in Scores
       /\ store[id].actionability_score # Null => store[id].actionability_score[1] \in Scores

C10_Witness ==
  \E w \in Workers :
    /\ Returned(w) /\ run[w].result.success /\ AiProduced(w)
    /\ run[w].out.ai.resp.score.quality = RawInt(ScoreMin - 2)
    /\ run[w].out.ai.resp.score.actionability = RawFloat(ScoreMax + 1)
    /\ Row(w).quality_score = Some(ScoreMin)
    /\ Row(w).actionability_score = Some(ScoreMax)

\* C11: every display title stored on a capture, by a run or by
\* backfillDisplayTitles, is at most 80 characters long; a generated title
\* that is longer than 80 after cleaning is stored as 77 characters and the
\* ellipsis, a shorter one as it is.
C11_DisplayTitleAtMost80 ==
  /\ \A id \in DOMAIN store :
       store[id].display_title # Null =>
         /\ store[id].display_title[1].len <= TitleMax
         /\ store[id].display_title[1].ellipsis => store[id].display_title[1].len = TitleMax
  /\ \A t \in TitleResponses :
       LET title == generateDisplayTitle(t) IN
         /\ title.len <= TitleMax
         /\ t.len - t.quotes > TitleMax <=> title.ellipsis
         /\ ~title.ellipsis => title.len = t.len - t.quotes

C11_Witness ==
  /\ batch.op = "backfillDisplayTitles" /\ batch.processed = 1
  /\ \E id \in Range(batch.selected) :
       /\ store[id].display_title # Null
       /\ store[id].display_title[1].ellipsis
       /\ store[id].display_title[1].len = TitleMax
  /\ \E id \in DOMAIN store \ Range(batch.selected) :
       /\ store[id].display_title # Null
       /\ store[id].display_title[1].ellipsis

\* C12: a categorization response without a parseable JSON object makes
\* categorize return category 'reference' and no tags; a run whose AI stage
\* answered so and whose final update was applied stores exactly that and is
\* completed.
C12_CategorizeFallback ==
  \A w \in Workers :
    AiProduced(w) /\ ~run[w].out.ai.resp.cat.parsed =>
      /\ categorize(run[w].out.ai.resp.cat) = [category |-> "reference", tags |-> <<>>]
      /\ Returned(w) /\ run[w].out.final = "ok" =>
           /\ run[w].result.success
           /\ Row(w).status = "completed"
           /\ Row(w).category = Some("reference")
           /\ Row(w).tags = Some(<<>>)

C12_Witness ==
  \E w \in Workers :
    /\ Returned(w) /\ AiProduced(w) /\ ~run[w].out.ai.resp.cat.parsed
    /\ Pre(w).category \notin {Null, Some("reference")}
    /\ Row(w).category = Some("reference") /\ Row(w).tags = Some(<<>>)
    /\ Row(w).status = "completed"

\* C13: when the scrape of a scrapeable URL fails, a run whose fetch and
\* final update succeed ends completed with content null, and the AI stage,
\* if configured, is called with the capture's title as its text.
C13_ScrapeFailureUsesTitle ==
  \A w \in Workers :
    Returned(w) /\ run[w].out.fetch = "ok" /\ ScrapeFailed(w) =>
      /\ env.ai => run[w].aiInput = Some(run[w].capture[1].title)
      /\ run[w].out.final = "ok" =>
           /\ run[w].result.success
           /\ Row(w).status = "completed"
           /\ Row(w).content = Null

C13_Witness ==
  \E w \in Workers :
    /\ Returned(w) /\ run[w].out.fetch = "ok" /\ ScrapeFailed(w)
    /\ run[w].result.success
    /\ AiProduced(w) /\ run[w].aiInput = Some(TitleOf(run[w].id))
    /\ Row(w).content = Null /\ Row(w).summary # Null
    /\ Row(w).status = "completed"

\* C15: in every state a capture whose status is completed has processed_at
\* set.
C15_CompletedHasProcessedAt ==
  \A id \in DOMAIN store :
    store[id].status = "completed" => store[id].processed_at # Null

C15_Witness ==
  \E id \in DOMAIN store :
    /\ store[id].status = "completed"
    /\ store[id].processed_at # Null
    /\ store[id].summary = Null /\ store[id].content = Null

\* C16: a step that changes an enrichment field of a capture is the final
\* update of a run on that capture, and it writes the whole update object of
\* that run together with status completed; until then the row holds none of
\* the run's fields.
C16_EnrichmentWrittenAtOnce ==
  [][\A id \in DOMAIN store :
       Enrichment(store'[id]) # Enrichment(store[id]) =>
         \E w \in Workers :
           /\ run[w].id = id /\ run[w].pc = "final" /\ run'[w].pc = "done"
           /\ run'[w].updates.status = "completed"
           /\ EnrichmentFields \cap DOMAIN run[w].updates # {}
           /\ store'[id] = ApplyUpdate(store[id], run'[w].updates)
           /\ store'[id].status = "completed"]_vars

C16_Witness ==
  \E w \in Workers :
    /\ run[w].pc = "final" /\ Exists(w)
    /\ AiProduced(w) /\ run[w].out.embed = "ok"
    /\ Row(w).status = "processing"
    /\ Enrichment(Row(w)) = Enrichment(Pre(w))
    /\ \E f \in AiFields : run[w].updates[f] # Row(w)[f]

\* The position in the selection of the run the sweep is at.
SweepAt == Len(batch.selected) - Len(batch.queue)

IsSweep == batch.op = "processPendingCaptures"

BackfillField ==
  IF batch.op = "backfillEmbeddings" THEN "embedding" ELSE "display_title"

IsBackfill == batch.op \in {"backfillEmbeddings", "backfillDisplayTitles"}

\* What holds of every backfill that got the answer of its selection query:
\* at most limit captures, all completed and missing the field; only that
\* field of selected captures is written; processed + failed is the number
\* selected.
BackfillWritesOneField ==
  IsBackfill /\ batch.error = "" =>
    LET was == batch.before[1]
        sel == batch.selected
    IN /\ Len(sel) <= batch.arg
       /\ Range(sel) \subseteq CompletedMissing(was, BackfillField)
       /\ DOMAIN store = DOMAIN was
       /\ \A id \in DOMAIN store : \A f \in DOMAIN store[id] :
            store[id][f] # was[id][f] => id \in Range(sel) /\ f = BackfillField
       /\ batch.processed = Cardinality({id \in Range(sel) : store[id][BackfillField] # Null})
       /\ batch.processed + batch.failed = Len(sel)

\* C18: a backfill selects at most limit completed captures whose field is
\* null, writes only that field, and returns processed + failed = the number
\* selected and remaining = the number of completed captures still missing
\* the field.
C18_BackfillCounts ==
  /\ BackfillWritesOneField
  /\ IsBackfill /\ batch.error = "" =>
       batch.remaining = Cardinality(CompletedMissing(store, BackfillField))

InProgress(w) == run[w].pc \notin {"idle", "done", "rejected"}

\* C19: processInBackground(id) has returned before the run it schedules
\* takes any step, and that run never rejects: when it fails it returns a
\* failure result whose message its catch block has logged.
C19_BackgroundRunAfterReturn ==
  /\ \A w \in tasks.active :
       /\ run[w].pc # "idle" /\ run[w].id \in tasks.returned
       /\ run[w].pc # "rejected"
       /\ run[w].pc = "done" /\ ~run[w].result.success =>
            run[w].result.error \in {FetchFailed, UpdateFailed}
  /\ \A i \in 1..Len(tasks.queue) : tasks.queue[i] \in tasks.returned
  /\ tasks.logged = {}

C19_Witness ==
  /\ \E i \in 1..Len(tasks.queue) :
       /\ tasks.queue[i] \in tasks.returned
       /\ \A w \in Workers : run[w].id # tasks.queue[i]
       /\ store[tasks.queue[i]].status = "pending"
  /\ \E w \in tasks.active :
       run[w].pc = "done" /\ run[w].result.error = UpdateFailed

\* C20 as stated: at most one processCapture run is in progress at any
\* moment.
C20_OneRunAtATime ==
  Cardinality({w \in Workers : InProgress(w)}) <= 1

\* C20: the runs of one sweep never overlap each other; every other run in
\* progress is the callback of an intake, and those are not serialised.
C20_OnlySweepRunsSerialised ==
  /\ IsSweep /\ batch.pc # "await" /\ batch.worker # "" =>
       batch.worker \in tasks.active \/ ~InProgress(batch.worker)
  /\ \A w \in Workers :
       InProgress(w) => w \in tasks.active \/ (batch.pc = "await" /\ batch.worker = w)

C20_Witness ==
  /\ IsSweep /\ batch.pc = "await"
  /\ \E w \in tasks.active :
       /\ w # batch.worker
       /\ InProgress(w) /\ InProgress(batch.worker)
       /\ run[w].id # run[batch.worker].id
       /\ store[run[w].id].status = "processing"
       /\ store[run[batch.worker].id].status = "processing"

\* The failure results processCapture returns.
RunErrors == {NotConfigured, FetchFailed, UpdateFailed}

\* The messages of a backfill's early returns.
BatchErrors == {SupabaseMissing, EmbeddingsMissing, AiMissing, SelectFailed}

\* C14: processCapture, processPendingCaptures and the two backfills never
\* reject: every call is at a step that can be taken or has returned, a
\* returned run carries success or a failure message, also after a failed
\* fetch, final update or corrective update, and a returned sweep or backfill
\* carries its counts.
C14_AlwaysStructuredResult ==
  /\ \A w \in Workers :
       /\ run[w].pc # "rejected"
       /\ InProgress(w) => ENABLED CallStep(w)
       /\ run[w].pc = "done" =>
            /\ run[w].result.success => run[w].result.error = "" /\ run[w].out.final = "ok"
            /\ ~run[w].result.success => run[w].result.error \in RunErrors
            /\ run[w].out.fetch = "err" => run[w].result.error = FetchFailed
            /\ run[w].out.final = "err" => run[w].result.error = UpdateFailed
  /\ batch.pc \in {"idle", "loop", "await", "done"}
  /\ batch.pc = "await" => run[batch.worker].pc \in {"done"} \/ InProgress(batch.worker)
  /\ batch.pc = "loop" => ENABLED (SweepCall("w1") \/ SweepReturn)
  /\ batch.pc = "done" =>
       /\ batch.processed \in Nat /\ batch.failed \in Nat /\ batch.remaining \in Nat
       /\ batch.error \in BatchErrors \cup {""}
       /\ batch.error # "" => batch.processed + batch.failed + batch.remaining = 0

C14_Witness ==
  /\ IsSweep /\ batch.pc = "done" /\ batch.failed = 2
  /\ run["w1"].pc = "done" /\ run["w1"].out.final = "err" /\ run["w1"].out.corrective = "err"
  /\ run["w1"].result = [success |-> FALSE, error |-> UpdateFailed]
  /\ \E id \in DOMAIN store : store[id].status = "pending"

\* The value a run's AI stage would store in a column had every call
\* answered.
AiValue(w, f) == AiUpdates(processContent(run[w].out.ai.resp), extractInsights(run[w].out.ai.resp))[f]

\* C21: when one generation call of a run fails, the run still completes and
\* the columns of the calls that answered hold their outputs; only the
\* columns of the failed call are left out of the final update.
C21_OnlyFailedCallOmitted ==
  \A w \in Workers :
    Returned(w) /\ run[w].out.ai \in CallFailures =>
      /\ run[w].result.success
      /\ \A c \in AiCalls \ {run[w].out.ai.failed} : \A f \in FieldsOf(c) :
           Row(w)[f] = AiValue(w, f)
      /\ \A f \in FieldsOf(run[w].out.ai.failed) : f \notin DOMAIN run[w].updates

\* What the code does instead: one failed call leaves every AI column out of
\* the final update, and the run completes.
AllAiOmittedOnFailure ==
  \A w \in Workers :
    Returned(w) /\ run[w].out.ai \in CallFailures =>
      /\ run[w].result.success /\ Row(w).status = "completed"
      /\ AiFields \cap DOMAIN run[w].updates = {}
      /\ \A f \in AiFields : Row(w)[f] = Pre(w)[f]

\* C22 as stated: a run of a configured deployment has read its record once
\* and issued at most two update requests when it returns.
C22_OneReadTwoUpdates ==
  \A w \in Workers :
    Returned(w) /\ env.supabase => run[w].nReads = 1 /\ run[w].nUpdates <= 2

\* C22: a run reads its record once, at its start, and issues at most three
\* update requests: two when it completes (transition, final), one when the
\* fetch failed (corrective), three when the final update failed (transition,
\* final, corrective); none of either without a store.
C22_OneReadThreeUpdates ==
  \A w \in Workers :
    /\ run[w].nReads <= 1 /\ run[w].nUpdates <= 3
    /\ run[w].pc \notin {"idle", "fetch"} /\ env.supabase => run[w].nReads = 1
    /\ run[w].pc = "done" =>
         run[w].nUpdates = IF ~env.supabase THEN 0
                           ELSE IF run[w].out.fetch = "err" THEN 1
                           ELSE IF run[w].out.final = "ok" THEN 2 ELSE 3
    /\ run[w].pc = "done" /\ ~env.supabase => run[w].nReads = 0
    /\ Returned(w) /\ run[w].result.success => run[w].nUpdates = 2

C22_Witness ==
  \E w \in Workers :
    /\ Returned(w) /\ run[w].out.final = "err" /\ run[w].out.corrective = "ok"
    /\ run[w].nReads = 1 /\ run[w].nUpdates = 3
    /\ Row(w).status = "error"

\* The positions of a run at which an enrichment stage is about to start or
\* under way.
StagePositions == {"scrape", "meta", "image", "ai", "embed"}

\* C23: in a run that found its record the stored status is processing
\* whenever a stage is about to start, the stages come in the order scrape,
\* metadata and image, AI, embedding, final write, and the image step has the
\* scrape's outcome before it.
C23_ProcessingBeforeStages ==
  \A w \in Workers :
    run[w].pc \in StagePositions \cup {"final"} /\ Exists(w) =>
      /\ run[w].out.fetch = "ok" /\ run[w].out.mark # "-"
      /\ Row(w).status = "processing"
      /\ run[w].pc \in {"image", "ai", "embed", "final"} =>
           run[w].rawHtml = run[w].out.scrape.html

\* The order of the steps alone, which holds: a step past the transition
\* write has the answers of every step before it.
StagesInOrder ==
  \A w \in Workers :
    run[w].pc \in StagePositions \cup {"final"} =>
      /\ run[w].out.fetch = "ok" /\ run[w].out.mark # "-" /\ run[w].nUpdates = 1
      /\ run[w].pc \in {"image", "ai", "embed", "final"} =>
           run[w].rawHtml = run[w].out.scrape.html
      /\ run[w].pc \in {"scrape", "meta", "image"} => run[w].out.ai = NoAi /\ run[w].out.embed = "-"
      /\ run[w].out.final = "-"

\* The update object of a run without the columns of its AI stage.
WithoutAi(w) == [f \in DOMAIN run[w].updates \ AiFields |-> run[w].updates[f]]

\* C24 as stated: the embedding a run stores does not depend on the outcome
\* of the run's content analysis.
C24_EmbeddingIndependentOfAi ==
  \A w \in Workers :
    Returned(w) /\ run[w].result.success /\ run[w].out.embed = "ok" =>
      Row(w).embedding = EmbeddingOf(ApplyUpdate(run[w].capture[1], WithoutAi(w)))

\* C24: the embedding is requested after the AI stage has settled and is
\* computed from the fetched record overlaid with the update object, this
\* run's AI outputs included; the final update carries the AI columns exactly
\* when the AI stage succeeded and the embedding exactly when the embedding
\* call succeeded, each without regard to the other.
C24_EmbeddingAfterAi ==
  \A w \in Workers :
    /\ run[w].pc \in {"scrape", "meta", "image", "ai"} => run[w].out.embed = "-"
    /\ Returned(w) /\ run[w].result.success =>
         /\ run[w].out.embed = "ok" => Row(w).embedding = EmbeddingOf(Row(w))
         /\ AiProduced(w) <=> AiFields \subseteq DOMAIN run[w].updates
         /\ ~AiProduced(w) <=> Omitted(w, AiFields)
         /\ run[w].out.embed = "ok" <=> "embedding" \in DOMAIN run[w].updates
         /\ AiProduced(w) => \A f \in AiFields : Row(w)[f] = AiValue(w, f)

C24_Witness ==
  \E w \in Workers :
    /\ Returned(w) /\ run[w].result.success
    /\ AiProduced(w) /\ run[w].out.embed = "ok"
    /\ Row(w).embedding = EmbeddingOf(Row(w))
    /\ Row(w).embedding # EmbeddingOf(ApplyUpdate(run[w].capture[1], WithoutAi(w)))
    /\ Row(w).summary = Some(run[w].out.ai.resp.summary)

\* C25: a ledger write that settles, however it ends, changes neither a
\* run's locals and result nor any capture, and the steps of a run do not
\* wait for it: the calls' results and the pipeline's final state are those
\* of a run whose ledger writes all succeed.
C25_UsageNeverAffectsCalls ==
  [][/\ tasks'.usage.pending # tasks.usage.pending /\ tasks'.usage.pending \subseteq tasks.usage.pending
        => store' = store /\ run' = run
     /\ run' # run =>
          /\ tasks'.usage.rows = tasks.usage.rows
          /\ tasks.usage.pending \subseteq tasks'.usage.pending
          /\ \A w \in Workers :
               run'[w].pc = "final" /\ run[w].pc = "embed" /\ run[w].out.ai.kind = "ok" =>
                 /\ AiFields \subseteq DOMAIN run'[w].updates
                 /\ \A f \in AiFields : run'[w].updates[f] = AiValue(w, f)]_vars

C25_Witness ==
  /\ run["w1"].pc = "done" /\ run["w1"].result.success
  /\ AiProduced("w1") /\ run["w1"].out.embed = "ok"
  /\ store[run["w1"].id].status = "completed"
  /\ store[run["w1"].id].summary # Null /\ store[run["w1"].id].embedding # Null
  /\ tasks.usage.rows = 0
  /\ \E c \in AiCalls : [id |-> run["w1"].id, op |-> c] \in tasks.usage.pending
  /\ \E c \in AiCalls : [id |-> run["w1"].id, op |-> c] \notin tasks.usage.pending

\* The columns the pipeline only reads: those of the Notion sync and those
\* the intake wrote.
SyncFields == {"notion_synced", "notion_page_id", "notion_synced_at"}
IdentityFields == {"url", "title", "selected_text", "favicon_url", "created_at"}

Frame(rec) == [f \in SyncFields \cup IdentityFields |-> rec[f]]

\* C26: no step of processCapture, of a sweep or of a backfill changes a sync
\* column or an identity column of any capture, and no update object of a run
\* names one.
C26_PipelineLeavesSyncAndIdentity ==
  [][run' # run \/ batch' # batch =>
       /\ \A id \in DOMAIN store : Frame(store'[id]) = Frame(store[id])
       /\ \A w \in Workers :
            DOMAIN run'[w].updates \cap (SyncFields \cup IdentityFields) = {}]_vars

C26_Witness ==
  /\ \E id \in DOMAIN store :
       /\ store[id].notion_synced /\ store[id].notion_page_id = Some("page")
       /\ store[id].status = "completed" /\ store[id].summary # Null
       /\ run["w1"].id = id /\ run["w1"].pc = "done" /\ run["w1"].pre[1].notion_synced
       /\ Frame(store[id]) = Frame(run["w1"].pre[1])
  /\ batch.op = "backfillEmbeddings" /\ batch.processed > 0
  /\ \E id \in Range(batch.selected) : batch.before[1][id].notion_synced

\* The invocations that have been called on a capture.
RunsOn(id) == {w \in Workers : run[w].pc # "idle" /\ run[w].id = id}

\* C27: when every store write is applied and all the runs called on a
\* capture, interleaved in any order, have returned, its status is completed
\* or error: the last status written is a terminal one.
C27_TerminalAfterRace ==
  \A id \in DOMAIN store :
    RunsOn(id) # {} /\ (\A w \in RunsOn(id) : run[w].pc = "done") =>
      store[id].status \in {"completed", "error"}

C27_Witness ==
  \E id \in DOMAIN store :
    /\ RunsOn(id) = Workers
    /\ \A w \in Workers : run[w].pc = "done"
    /\ \E w \in Workers : run[w].pre[1].status = "processing" /\ ~run[w].result.success
    /\ \E w \in Workers : run[w].result.success
    /\ store[id].status = "completed"
    /\ store[id].error_message # Null

\* C28: once a PUT /settings with a valid model has completed, neither cache
\* holds another model, and every AI call that started afterwards goes on
\* with the new model.
C28_NewModelAfterPut ==
  settings.put.pc = "done" =>
    /\ settings.cachedSettings \in {Null, Some(settings.put.aiModel)}
    /\ settings.currentModelConfig \in {Null, Some(settings.put.aiModel)}
    /\ \A c \in Callers :
         settings.call[c].pc = "done" /\ settings.call[c].afterPut =>
           settings.call[c].used = settings.put.aiModel

\* What holds instead: after a completed PUT a cache holds the new model, or
\* the model an AI call read from the store before the update was applied.
StaleOnlyFromEarlierRead ==
  settings.put.pc = "done" =>
    \A cached \in {settings.cachedSettings, settings.currentModelConfig} :
      cached \in {Null, Some(settings.put.aiModel)}
      \/ \E c \in Callers :
           /\ ~settings.call[c].afterPut /\ settings.call[c].pc = "done"
           /\ settings.call[c].seen = cached

\* C29: a successful run of processCapture writes no error_message: the
\* record holds the message it held before the call, also when a capture in
\* status error was reprocessed and is now completed.
C29_SuccessKeepsErrorMessage ==
  \A w \in Workers :
    Returned(w) /\ run[w].result.success /\ Exists(w) =>
      /\ "error_message" \notin DOMAIN run[w].updates
      /\ Row(w).error_message = Pre(w).error_message

C29_Witness ==
  \E w \in Workers :
    /\ Returned(w) /\ run[w].result.success /\ Exists(w)
    /\ Pre(w).status = "error" /\ Pre(w).error_message # Null
    /\ Row(w).status = "completed"
    /\ Row(w).error_message = Pre(w).error_message

\* The rows as the running or last sweep found them.
Before == batch.before[1]

SweepRunning == IsSweep /\ batch.pc \in {"loop", "await"}

\* C30: a sweep selects only captures whose stored status is pending, and no
\* step of a sweep changes a capture that was in processing, completed or
\* error when the sweep was called, however many sweeps are made; such a
\* capture changes only in a direct call of processCapture on its id.
C30_SweepsLeaveOtherStatuses ==
  [][ /\ IsSweep' =>
           \A id \in Range(batch'.selected) : batch'.before[1][id].status = "pending"
      /\ SweepRunning =>
           \A id \in DOMAIN store :
             Before[id].status # "pending" =>
               /\ store'[id] = store[id]
               /\ store[id] = Before[id]
               /\ \A w \in Workers : run'[w] # run[w] => run'[w].id # id
      /\ \A id \in DOMAIN store :
           store[id].status \in {"processing", "error"} /\ store'[id] # store[id] =>
             /\ ~SweepRunning \/ Before[id].status = "pending"
             /\ \E w \in Workers : run[w].id = id /\ InProgress(w) ]_vars

\* A sweep has returned that found one capture in processing, left there by a
\* run whose final and corrective writes failed, and one in error; both are
\* as they were.
C30_Witness ==
  /\ IsSweep /\ batch.pc = "done"
  /\ \E id \in DOMAIN store : Before[id].status = "processing" /\ store[id] = Before[id]
  /\ \E id \in DOMAIN store : Before[id].status = "error" /\ store[id] = Before[id]
  /\ \E w \in Workers : run[w].pc = "done" /\ run[w].out.final = "err" /\ run[w].out.corrective = "err"

====
